---- MODULE Spec2Model ----
(***************************************************************************)
(* A model of the DSL execution engine: the lexer and parser (lexer.py,     *)
(* parser.py), the runtime environment (runtime.py), the two interpreters  *)
(* (better_interpreter.py, interpreter.py) and the controllers that drive  *)
(* them (main_controller.py, core/controller.py).                          *)
(*                                                                         *)
(* Python strings are sequences of one-character strings, so that          *)
(* startswith, str.replace and the placeholder regex are computed on the   *)
(* characters.  Statement indices are 0-based as in the source; the        *)
(* statement at index i is script[i + 1].                                  *)
(***************************************************************************)
EXTENDS Integers, Sequences, FiniteSets, TLC

----------------------------------------------------------------------------
(* Bounds of the model *)

\* Longest generated script.
MaxLen == 3

\* Turns a driver starts in one session.
MaxTurns == 3

\* Calls of Interpreter.execute_script in one session.
MaxRuns == 1

\* Calls of reset_conversation in one session.
MaxResets == 1

\* Steps of one turn that two sessions are compared over.
MaxSteps == 6

----------------------------------------------------------------------------
(* Python values *)

\* Python's None: a one-element sequence that is no string of characters.
None == <<"None">>

Letter ==
    {"a","b","c","d","e","f","g","h","i","j","k","l","m","n","o","p","q","r",
     "s","t","u","v","w","x","y","z","A","B","C","D","E","F","G","H","I","J",
     "K","L","M","N","O","P","Q","R","S","T","U","V","W","X","Y","Z"}

Digit == {"0","1","2","3","4","5","6","7","8","9"}

\* [a-zA-Z_]
IdStart == Letter \cup {"_"}

\* [a-zA-Z0-9_]
IdChar == IdStart \cup Digit

\* str.startswith('$')
startswith_sigil(s) == Len(s) > 0 /\ s[1] = "$"

\* name[1:] when the name starts with the sigil
strip_sigil(name) == IF startswith_sigil(name) THEN Tail(name) ELSE name

\* A Python list of strings stored as a variable value: a flat sequence of
\* the tag "[list]" and the items' characters, the items separated by "[,]".
RECURSIVE list_value_items(_)
list_value_items(items) ==
    IF Len(items) = 0 THEN <<>>
    ELSE IF Len(items) = 1 THEN items[1]
    ELSE items[1] \o <<"[,]">> \o list_value_items(Tail(items))

list_value(items) == <<"[list]">> \o list_value_items(items)

is_list_value(v) == Len(v) > 0 /\ v[1] = "[list]"

\* str(value): a string is itself; a list of strings prints as ['a', 'b'].
RECURSIVE list_repr_chars(_)
list_repr_chars(cs) ==
    IF Len(cs) = 0 THEN <<"'", "]">>
    ELSE IF cs[1] = "[,]" THEN <<"'", ",", " ", "'">> \o list_repr_chars(Tail(cs))
    ELSE <<cs[1]>> \o list_repr_chars(Tail(cs))

str(v) ==
    IF is_list_value(v)
    THEN IF Len(v) = 1 THEN <<"[", "]">>
         ELSE <<"[", "'">> \o list_repr_chars(Tail(v))
    ELSE v

\* str.replace(old, new) for a non-empty old: every non-overlapping
\* occurrence, scanning from the left.
RECURSIVE replace(_, _, _)
replace(s, old, new) ==
    IF Len(s) = 0 THEN <<>>
    ELSE IF Len(old) <= Len(s) /\ SubSeq(s, 1, Len(old)) = old
    THEN new \o replace(SubSeq(s, Len(old) + 1, Len(s)), old, new)
    ELSE <<s[1]>> \o replace(Tail(s), old, new)

\* First index at or after j whose character is not in [a-zA-Z0-9_].
RECURSIVE ident_end(_, _)
ident_end(text, j) ==
    IF j <= Len(text) /\ text[j] \in IdChar THEN ident_end(text, j + 1) ELSE j

\* re.finditer(r'\$[a-zA-Z_][a-zA-Z0-9_]*', text): the matched texts in order.
RECURSIVE finditer(_, _)
finditer(text, i) ==
    IF i > Len(text) THEN <<>>
    ELSE IF text[i] = "$" /\ i + 1 <= Len(text) /\ text[i + 1] \in IdStart
    THEN LET e == ident_end(text, i + 2)
         IN  <<SubSeq(text, i, e - 1)>> \o finditer(text, e)
    ELSE finditer(text, i + 1)

----------------------------------------------------------------------------
(* AST nodes (nodes.py) *)

LabelNode(name) == [type |-> "LabelNode", name |-> name]

ReplyNode(message) == [type |-> "ReplyNode", message |-> message]

SetNode(var_name, value) ==
    [type |-> "SetNode", var_name |-> var_name, value |-> value]

GetIntentNode(var_name) == [type |-> "GetIntentNode", var_name |-> var_name]

IfNode(var_name, compare_value, target_label) ==
    [type |-> "IfNode", var_name |-> var_name, compare_value |-> compare_value,
     target_label |-> target_label]

GotoNode(target_label) == [type |-> "GotoNode", target_label |-> target_label]

ExitNode == [type |-> "ExitNode"]

IntentsNode(intent_names) ==
    [type |-> "IntentsNode", intent_names |-> intent_names]

LabelDeclarationsNode(label_names) ==
    [type |-> "LabelDeclarationsNode", label_names |-> label_names]

PauseForInputNode == [type |-> "PauseForInputNode"]

----------------------------------------------------------------------------
(* RuntimeEnvironment (runtime.py): rt is the record of its fields *)

RuntimeEnvironment ==
    [variables |-> <<>>, labels |-> <<>>, current_line |-> 0,
     should_exit |-> FALSE, last_reply |-> None, defined_intents |-> <<>>]

\* dict[key] = value
dict_set(d, key, value) ==
    [k \in DOMAIN d \cup {key} |-> IF k = key THEN value ELSE d[k]]

\* del dict[key]
dict_del(d, key) == [k \in DOMAIN d \ {key} |-> d[k]]

\* A set_variable that keeps the name as it is written.
set_variable_keeping_sigil(rt, name, value) ==
    [rt EXCEPT !.variables = dict_set(@, name, value)]

set_variable(rt, name, value) ==
    [rt EXCEPT !.variables = dict_set(@, strip_sigil(name), value)]

get_variable(rt, name, default) ==
    LET n == strip_sigil(name)
    IN  IF n \in DOMAIN rt.variables THEN rt.variables[n] ELSE default

set_defined_intents(rt, intents) == [rt EXCEPT !.defined_intents = intents]

register_label(rt, label_name, line_number) ==
    [rt EXCEPT !.labels = dict_set(@, label_name, line_number)]

set_reply(rt, message) == [rt EXCEPT !.last_reply = message]

\* A reset that makes a new environment.
reset_by_recreation(rt) == RuntimeEnvironment

reset(rt) ==
    [rt EXCEPT !.variables = <<>>, !.labels = <<>>, !.current_line = 0,
               !.should_exit = FALSE, !.last_reply = None]

----------------------------------------------------------------------------
(* Interpreter (better_interpreter.py): it is the record of its fields.    *)
(* A machine m is the pair of the two objects plus what the call in        *)
(* progress returns (result) or raises (exc).                              *)

NoReason == "None"

Interpreter ==
    [external_functions |-> {}, has_jumped |-> FALSE, label_cache |-> <<>>,
     pending_gotos |-> <<>>, resolved_gotos |-> {},
     label_statements_processed |-> {}, execution_paused |-> FALSE,
     pause_reason |-> NoReason, pending_replies |-> <<>>]

register_function(it, name) ==
    [it EXCEPT !.external_functions = @ \cup {name}]

\* A raise that also discards the variables.
raise_discarding_variables(m, e) == [m EXCEPT !.exc = e, !.rt.variables = <<>>]

\* raise RuntimeError(...): the call stops here, state as reached so far.
raise(m, e) == [m EXCEPT !.exc = e]

predeclare_label(m, label_name) ==
    [m EXCEPT !.it.label_cache = dict_set(@, label_name, -1)]

\* for label_name in node.label_names: self._predeclare_label(label_name)
RECURSIVE predeclare_labels(_, _)
predeclare_labels(m, label_names) ==
    IF Len(label_names) = 0 THEN m
    ELSE predeclare_labels(predeclare_label(m, label_names[1]), Tail(label_names))

define_label(m, label_name, line_number) ==
    IF /\ label_name \in DOMAIN m.it.label_cache
       /\ m.it.label_cache[label_name] = line_number
    THEN m
    ELSE LET m1 == [m EXCEPT !.it.label_cache = dict_set(@, label_name, line_number)]
         IN  IF label_name \in DOMAIN m1.it.pending_gotos
             THEN [m1 EXCEPT !.it.resolved_gotos = @ \cup {label_name},
                             !.it.pending_gotos = dict_del(@, label_name)]
             ELSE m1

\* jump_to_label with an undeclared label treated like a declared one
\* without a location (the reference is recorded, nothing is raised).
jump_to_label_lenient(m, label_name, current_line) ==
    LET declared == label_name \in DOMAIN m.it.label_cache
        target_line == IF declared THEN m.it.label_cache[label_name] ELSE -1
    IN  IF target_line # -1
        THEN [m EXCEPT !.rt.current_line =
                           IF target_line \in m.it.label_statements_processed
                           THEN target_line + 1
                           ELSE target_line,
                       !.it.has_jumped = TRUE]
        ELSE [m EXCEPT !.it.pending_gotos =
                           dict_set(@, label_name,
                                    Append(IF label_name \in DOMAIN @
                                           THEN @[label_name] ELSE <<>>,
                                           current_line))]

jump_to_label(m, label_name, current_line) ==
    IF label_name \in DOMAIN m.it.label_cache
    THEN LET target_line == m.it.label_cache[label_name]
         IN  IF target_line # -1
             THEN LET adjusted ==
                          IF target_line \in m.it.label_statements_processed
                          THEN target_line + 1
                          ELSE target_line
                  IN  [m EXCEPT !.rt.current_line = adjusted,
                                !.it.has_jumped = TRUE]
             ELSE LET refs == IF label_name \in DOMAIN m.it.pending_gotos
                              THEN m.it.pending_gotos[label_name]
                              ELSE <<>>
                  IN  [m EXCEPT !.it.pending_gotos =
                                    dict_set(@, label_name, Append(refs, current_line))]
    ELSE raise(m, "undeclared_label")

\* for match in re.finditer(...): result = result.replace(var_name, str(value))
RECURSIVE substitute_matches(_, _, _)
substitute_matches(rt, result, matches) ==
    IF Len(matches) = 0 THEN result
    ELSE LET var_name == matches[1]
             var_value == get_variable(rt, var_name, <<>>)
         IN  substitute_matches(rt, replace(result, var_name, str(var_value)),
                                Tail(matches))

resolve_variables_in_string(rt, text) ==
    substitute_matches(rt, text, finditer(text, 1))

execute_label_node(m, node, current_line) ==
    LET m1 == IF \/ node.name \notin DOMAIN m.it.label_cache
                 \/ m.it.label_cache[node.name] = -1
              THEN define_label(m, node.name, current_line)
              ELSE m
    IN  [m1 EXCEPT !.it.label_statements_processed = @ \cup {current_line}]

\* A Reply that returns its text without pausing the interpreter.
execute_reply_node_without_pause(m, node) ==
    [m EXCEPT !.result = resolve_variables_in_string(m.rt, node.message)]

execute_reply_node(m, node) ==
    [m EXCEPT !.it.execution_paused = TRUE,
              !.it.pause_reason = "reply",
              !.result = resolve_variables_in_string(m.rt, node.message)]

\* A Set by reference that stores the empty string when the referenced
\* variable is unset.
execute_set_node_unset_as_empty(m, node) ==
    IF startswith_sigil(node.value)
    THEN [m EXCEPT !.rt = set_variable(@, node.var_name,
                                       get_variable(m.rt, node.value, <<>>))]
    ELSE [m EXCEPT !.rt = set_variable(@, node.var_name, node.value)]

execute_set_node(m, node) ==
    IF startswith_sigil(node.value)
    THEN LET actual_value == get_variable(m.rt, node.value, None)
         IN  IF actual_value = None
             THEN raise(m, "undefined_variable")
             ELSE [m EXCEPT !.rt = set_variable(@, node.var_name, actual_value)]
    ELSE [m EXCEPT !.rt = set_variable(@, node.var_name, node.value)]

\* A GetIntent that classifies the text itself and stores the intent, here
\* the text as it is.
execute_get_intent_node_storing_intent(m, node) ==
    [m EXCEPT !.rt = set_variable(@, <<"i", "n", "t", "e", "n", "t">>,
                                  get_variable(m.rt, node.var_name, <<>>)),
              !.it.execution_paused = TRUE,
              !.it.pause_reason = "get_intent",
              !.result = None]

execute_get_intent_node(m, node) ==
    [m EXCEPT !.it.execution_paused = TRUE,
              !.it.pause_reason = "get_intent",
              !.result = None]

\* An If that matches when the literal is a prefix of the value.
execute_if_node_prefix_match(m, node, current_line) ==
    LET value == get_variable(m.rt, node.var_name, <<>>)
    IN  IF /\ Len(node.compare_value) <= Len(value)
           /\ SubSeq(value, 1, Len(node.compare_value)) = node.compare_value
        THEN jump_to_label(m, node.target_label, current_line)
        ELSE m

execute_if_node(m, node, current_line) ==
    IF get_variable(m.rt, node.var_name, <<>>) = node.compare_value
    THEN jump_to_label(m, node.target_label, current_line)
    ELSE m

execute_node(m, node, current_line) ==
    LET m0 == [m EXCEPT !.it.has_jumped = FALSE,
                        !.it.execution_paused = FALSE,
                        !.result = None,
                        !.exc = "none"]
    IN  CASE node.type = "LabelDeclarationsNode" ->
                 predeclare_labels(m0, node.label_names)
          [] node.type = "IntentsNode" ->
                 [m0 EXCEPT !.rt = set_defined_intents(@, node.intent_names)]
          [] node.type = "LabelNode" -> execute_label_node(m0, node, current_line)
          [] node.type = "ReplyNode" -> execute_reply_node(m0, node)
          [] node.type = "SetNode" -> execute_set_node(m0, node)
          [] node.type = "GetIntentNode" -> execute_get_intent_node(m0, node)
          [] node.type = "IfNode" -> execute_if_node(m0, node, current_line)
          [] node.type = "GotoNode" ->
                 jump_to_label(m0, node.target_label, current_line)
          [] node.type = "ExitNode" -> [m0 EXCEPT !.rt.should_exit = TRUE]
          [] OTHER -> raise(m0, "unknown_node")

\* execute_script_step in which a statement that pauses leaves the program
\* counter where it is.
execute_script_step_pause_in_place(m, statements) ==
    IF m.rt.current_line >= Len(statements)
    THEN [m EXCEPT !.result = None, !.exc = "none"]
    ELSE LET m1 == execute_node(m, statements[m.rt.current_line + 1],
                                m.rt.current_line)
         IN  IF m1.exc # "none" THEN m1
             ELSE IF ~m1.it.has_jumped /\ ~m1.it.execution_paused
             THEN [m1 EXCEPT !.rt.current_line = @ + 1]
             ELSE m1

\* execute_script_step in which the counter is incremented after a jump too.
execute_script_step_always_advance(m, statements) ==
    IF m.rt.current_line >= Len(statements)
    THEN [m EXCEPT !.result = None, !.exc = "none"]
    ELSE LET m1 == execute_node(m, statements[m.rt.current_line + 1],
                                m.rt.current_line)
         IN  IF m1.exc # "none" THEN m1
             ELSE [m1 EXCEPT !.rt.current_line = @ + 1]

\* execute_script_step in which the counter is incremented although the
\* statement raised.
execute_script_step_advance_on_raise(m, statements) ==
    IF m.rt.current_line >= Len(statements)
    THEN [m EXCEPT !.result = None, !.exc = "none"]
    ELSE LET m1 == execute_node(m, statements[m.rt.current_line + 1],
                                m.rt.current_line)
         IN  IF ~m1.it.has_jumped
             THEN [m1 EXCEPT !.rt.current_line = @ + 1]
             ELSE m1

execute_script_step(m, statements) ==
    IF m.rt.current_line >= Len(statements)
    THEN [m EXCEPT !.result = None, !.exc = "none"]
    ELSE LET m1 == execute_node(m, statements[m.rt.current_line + 1],
                                m.rt.current_line)
         IN  IF m1.exc # "none" THEN m1
             ELSE IF ~m1.it.has_jumped
             THEN [m1 EXCEPT !.rt.current_line = @ + 1]
             ELSE m1

resume_execution(it) ==
    [it EXCEPT !.execution_paused = FALSE, !.pause_reason = NoReason]

\* for line_num, node in enumerate(script.statements): if LabelNode: define
\* A scan that records 1-based positions.
RECURSIVE scan_from_one_based(_, _, _)
scan_from_one_based(m, statements, line_num) ==
    IF line_num >= Len(statements) THEN m
    ELSE LET node == statements[line_num + 1]
         IN  scan_from_one_based(IF node.type = "LabelNode"
                                 THEN define_label(m, node.name, line_num + 1)
                                 ELSE m,
                                 statements, line_num + 1)

RECURSIVE scan_from(_, _, _)
scan_from(m, statements, line_num) ==
    IF line_num >= Len(statements) THEN m
    ELSE LET node == statements[line_num + 1]
         IN  scan_from(IF node.type = "LabelNode"
                       THEN define_label(m, node.name, line_num)
                       ELSE m,
                       statements, line_num + 1)

scan_labels(m, statements) ==
    scan_from([m EXCEPT !.it.label_cache = <<>>], statements, 0)

----------------------------------------------------------------------------
(* Lexer and parser of the value of a Set (lexer.py, parser.py) *)

Token(type, value) == [type |-> type, value |-> value]

\* The texts the lexer makes a VARIABLE token of: \$[a-zA-Z_][a-zA-Z0-9_]*
is_variable_text(v) ==
    /\ Len(v) >= 2
    /\ v[1] = "$"
    /\ v[2] \in IdStart
    /\ ident_end(v, 3) = Len(v) + 1

\* The texts the lexer makes a STRING token of, the quotes taken off:
\* \"[^\"]*\"
is_string_text(v) == \A k \in 1..Len(v) : v[k] # "\""

\* The tokens the lexer can produce for the text of a value.
value_tokens_for(v) ==
    { t \in { Token("STRING", v), Token("VARIABLE", v) } :
        \/ t.type = "STRING" /\ is_string_text(v)
        \/ t.type = "VARIABLE" /\ is_variable_text(v) }

\* Parser.parse_set once "set" is eaten: the variable, "==", then a STRING
\* or a VARIABLE token, of which only the text is kept.
parse_set(var_token, value_token) ==
    SetNode(var_token.value, value_token.value)

\* The types of value token that a script's statements can have been parsed
\* from, one per statement.
value_tokens_of(statements) ==
    { types \in [1..Len(statements) -> {"STRING", "VARIABLE", "none"}] :
        \A i \in 1..Len(statements) :
            IF statements[i].type = "SetNode"
            THEN \E t \in value_tokens_for(statements[i].value) :
                     /\ t.type = types[i]
                     /\ parse_set(Token("VARIABLE", statements[i].var_name), t)
                            = statements[i]
            ELSE types[i] = "none" }

----------------------------------------------------------------------------
(* Lexer (lexer.py).  Positions are 0-based as in the source: the          *)
(* character at position p of a text is text[p + 1].                       *)

\* Token; column, which only the text of an error message reads, is left
\* out.
TokenAt(type, value, line) == [type |-> type, value |-> value, line |-> line]

\* token_specs without SKIP and COMMENT, in the order of the alternation of
\* regex_pattern.
token_specs ==
    <<
       [name |-> "INTENTS", pattern |-> "literal",
        text |-> <<"i", "n", "t", "e", "n", "t", "s">>],
       [name |-> "LABELS", pattern |-> "literal",
        text |-> <<"l", "a", "b", "e", "l", "s">>],
       [name |-> "REPLY", pattern |-> "literal",
        text |-> <<"r", "e", "p", "l", "y">>],
       [name |-> "SET", pattern |-> "literal",
        text |-> <<"s", "e", "t">>],
       [name |-> "GET_INTENT", pattern |-> "literal",
        text |-> <<"g", "e", "t", "_", "i", "n", "t", "e", "n", "t">>],
       [name |-> "PAUSE_FOR_INPUT", pattern |-> "literal",
        text |-> <<"p", "a", "u", "s", "e", "_", "f", "o", "r", "_", "u",
           "s", "e", "r", "_", "i", "n", "p", "u", "t">>],
       [name |-> "IF", pattern |-> "literal",
        text |-> <<"i", "f">>],
       [name |-> "THEN", pattern |-> "literal",
        text |-> <<"t", "h", "e", "n">>],
       [name |-> "GOTO", pattern |-> "literal",
        text |-> <<"g", "o", "t", "o">>],
       [name |-> "EQUALS", pattern |-> "literal",
        text |-> <<"=", "=">>],
       [name |-> "LBRACE", pattern |-> "literal",
        text |-> <<"{">>],
       [name |-> "RBRACE", pattern |-> "literal",
        text |-> <<"}">>],
       [name |-> "COMMA", pattern |-> "literal",
        text |-> <<",">>],
       [name |-> "STRING", pattern |-> "string", text |-> <<>>],
       [name |-> "VARIABLE", pattern |-> "variable", text |-> <<>>],
       [name |-> "LABEL", pattern |-> "label", text |-> <<>>],
       [name |-> "COLON", pattern |-> "literal",
        text |-> <<":">>],
       [name |-> "NEWLINE", pattern |-> "literal",
        text |-> <<"\n">>],
       [name |-> "EXIT", pattern |-> "literal",
        text |-> <<"e", "x", "i", "t">>] >>

\* Index of the first '"' at or after index j, 0 if there is none.
next_quote(text, j) ==
    LET quotes == { q \in j..Len(text) : text[q] = "\"" }
    IN  IF quotes = {} THEN 0
        ELSE CHOOSE q \in quotes : \A r \in quotes : q <= r

\* match.end() of one alternative tried at position, -1 if it does not
\* match there.
match_end(spec, text, position) ==
    CASE spec.pattern = "literal" ->
             IF /\ position + Len(spec.text) <= Len(text)
                /\ SubSeq(text, position + 1, position + Len(spec.text))
                       = spec.text
             THEN position + Len(spec.text)
             ELSE -1
      [] spec.pattern = "string" ->
             \* \"[^\"]*\"
             IF text[position + 1] = "\""
             THEN LET close == next_quote(text, position + 2)
                  IN  IF close > 0 THEN close ELSE -1
             ELSE -1
      [] spec.pattern = "variable" ->
             \* \$[a-zA-Z_][a-zA-Z0-9_]*
             IF /\ text[position + 1] = "$"
                /\ position + 2 <= Len(text)
                /\ text[position + 2] \in IdStart
             THEN ident_end(text, position + 3) - 1
             ELSE -1
      [] spec.pattern = "label" ->
             \* [a-zA-Z_][a-zA-Z0-9_]*:
             IF text[position + 1] \in IdStart
             THEN LET e == ident_end(text, position + 2)
                  IN  IF e <= Len(text) /\ text[e] = ":" THEN e ELSE -1
             ELSE -1

\* self.pattern.match(source, position): the first alternative, from the
\* k-th on, that matches at position.
RECURSIVE pattern_match(_, _, _)
pattern_match(text, position, k) ==
    IF k > Len(token_specs) THEN [lastgroup |-> "none", end |-> -1]
    ELSE LET e == match_end(token_specs[k], text, position)
         IN  IF e >= 0 THEN [lastgroup |-> token_specs[k].name, end |-> e]
             ELSE pattern_match(text, position, k + 1)

\* The position the run of blanks (or, in a comment, of characters other
\* than the newline) that starts at position ends at.
run_end(text, position, in_comment) ==
    LET in_run(q) == IF in_comment THEN text[q + 1] # "\n"
                     ELSE text[q + 1] \in {" ", "\t"}
    IN  CHOOSE q \in position..Len(text) :
            /\ \A r \in position..(q - 1) : in_run(r)
            /\ q = Len(text) \/ ~in_run(q)

\* The while loop of Lexer.tokenize from position on, toks being
\* self.tokens; the result is the list returned, or the error raised.
RECURSIVE tokenize_from(_, _, _, _)
tokenize_from(text, position, line, toks) ==
    IF position >= Len(text)
    THEN [tokens |-> Append(toks, TokenAt("EOF", <<>>, line)),
          error |-> "none"]
    ELSE IF text[position + 1] \in {" ", "\t"}
    THEN tokenize_from(text, run_end(text, position, FALSE), line, toks)
    ELSE IF text[position + 1] = "#"
    THEN tokenize_from(text, run_end(text, position, TRUE), line, toks)
    ELSE LET match == pattern_match(text, position, 1)
             group == SubSeq(text, position + 1, match.end)
             token_value ==
                 IF match.lastgroup = "STRING"
                 THEN SubSeq(group, 2, Len(group) - 1)
                 ELSE IF match.lastgroup = "LABEL"
                 THEN SubSeq(group, 1, Len(group) - 1)
                 ELSE group
         IN  IF match.lastgroup = "none"
             THEN [tokens |-> <<>>, error |-> "unknown_character"]
             ELSE tokenize_from(text, match.end,
                                IF match.lastgroup = "NEWLINE"
                                THEN line + 1 ELSE line,
                                Append(toks, TokenAt(match.lastgroup,
                                                     token_value, line)))

\* Lexer(source).tokenize()
tokenize(text) == tokenize_from(text, 0, 1, <<>>)

----------------------------------------------------------------------------
(* Parser (parser.py).  toks is self.tokens and i the 1-based index of     *)
(* current_token; every list of tokens ends with EOF, which no routine     *)
(* eats, so that current_token is never None.  A routine returns the node, *)
(* the index it leaves current_token at, and the error it raised.          *)

parsed(node, next, value_token) ==
    [node |-> node, next |-> next, value_token |-> value_token,
     error |-> "none"]

failed(error) ==
    [node |-> None, next |-> 0, value_token |-> "none", error |-> error]

\* The calls eat(types[1]), eat(types[2]), ... made in a row from index i
\* all succeed.
eat(toks, i, types) ==
    \A k \in 1..Len(types) :
        i + k - 1 <= Len(toks) /\ toks[i + k - 1].type = types[k]

\* Parser.parse_label
parse_label(toks, i) ==
    IF eat(toks, i, <<"LABEL">>)
    THEN parsed(LabelNode(toks[i].value), i + 1, "none")
    ELSE failed("expected_token")

\* The loop of parse_intents and of parse_label_declarations from index j:
\* items of the given type, a comma after each but possibly the last.
RECURSIVE parse_items(_, _, _, _)
parse_items(toks, j, type, items) ==
    IF toks[j].type = type
    THEN IF toks[j + 1].type = "COMMA"
         THEN parse_items(toks, j + 2, type, Append(items, toks[j].value))
         ELSE [items |-> Append(items, toks[j].value), next |-> j + 1]
    ELSE [items |-> items, next |-> j]

\* Parser.parse_intents
parse_intents(toks, i) ==
    IF eat(toks, i, <<"INTENTS", "LBRACE">>)
    THEN LET names == parse_items(toks, i + 2, "STRING", <<>>)
         IN  IF eat(toks, names.next, <<"RBRACE">>)
             THEN parsed(IntentsNode(names.items), names.next + 1, "none")
             ELSE failed("expected_token")
    ELSE failed("expected_token")

\* Parser.parse_reply
parse_reply(toks, i) ==
    IF eat(toks, i, <<"REPLY", "STRING">>)
    THEN parsed(ReplyNode(toks[i + 1].value), i + 2, "none")
    ELSE failed("expected_token")

\* Parser.parse_set from the token "set" on
parse_set_statement(toks, i) ==
    IF eat(toks, i, <<"SET", "VARIABLE", "EQUALS">>)
    THEN IF toks[i + 3].type \in {"STRING", "VARIABLE"}
         THEN parsed(parse_set(toks[i + 1], toks[i + 3]), i + 4,
                     toks[i + 3].type)
         ELSE failed("expected_value")
    ELSE failed("expected_token")

\* Parser.parse_get_intent
parse_get_intent(toks, i) ==
    IF eat(toks, i, <<"GET_INTENT", "VARIABLE">>)
    THEN parsed(GetIntentNode(toks[i + 1].value), i + 2, "none")
    ELSE failed("expected_token")

\* Parser.parse_if
parse_if(toks, i) ==
    IF eat(toks, i, <<"IF", "VARIABLE", "EQUALS", "STRING", "THEN", "GOTO",
                      "LABEL">>)
    THEN parsed(IfNode(toks[i + 1].value, toks[i + 3].value,
                       toks[i + 6].value), i + 7, "none")
    ELSE failed("expected_token")

\* Parser.parse_goto
parse_goto(toks, i) ==
    IF eat(toks, i, <<"GOTO", "LABEL">>)
    THEN parsed(GotoNode(toks[i + 1].value), i + 2, "none")
    ELSE failed("expected_token")

\* Parser.parse_exit
parse_exit(toks, i) ==
    IF eat(toks, i, <<"EXIT">>)
    THEN parsed(ExitNode, i + 1, "none")
    ELSE failed("expected_token")

\* Parser.parse_label_declarations
parse_label_declarations(toks, i) ==
    IF eat(toks, i, <<"LABELS", "LBRACE">>)
    THEN LET names == parse_items(toks, i + 2, "LABEL", <<>>)
         IN  IF eat(toks, names.next, <<"RBRACE">>)
             THEN parsed(LabelDeclarationsNode(names.items), names.next + 1,
                         "none")
             ELSE failed("expected_token")
    ELSE failed("expected_token")

\* Parser.parse_statement
parse_statement(toks, i) ==
    CASE toks[i].type = "LABEL" -> parse_label(toks, i)
      [] toks[i].type = "INTENTS" -> parse_intents(toks, i)
      [] toks[i].type = "REPLY" -> parse_reply(toks, i)
      [] toks[i].type = "SET" -> parse_set_statement(toks, i)
      [] toks[i].type = "GET_INTENT" -> parse_get_intent(toks, i)
      [] toks[i].type = "IF" -> parse_if(toks, i)
      [] toks[i].type = "GOTO" -> parse_goto(toks, i)
      [] toks[i].type = "EXIT" -> parse_exit(toks, i)
      [] OTHER -> failed("unexpected_token")

\* The while loop of Parser.parse from index i on.  value_tokens keeps, per
\* statement, the type of the token its value was read from.
RECURSIVE parse_from(_, _, _, _)
parse_from(toks, i, statements, types) ==
    IF toks[i].type = "EOF"
    THEN [statements |-> statements, value_tokens |-> types,
          error |-> "none"]
    ELSE IF toks[i].type = "NEWLINE"
    THEN parse_from(toks, i + 1, statements, types)
    ELSE LET statement == parse_statement(toks, i)
         IN  IF statement.error # "none"
             THEN [statements |-> <<>>, value_tokens |-> <<>>,
                   error |-> statement.error]
             ELSE parse_from(toks,
                             IF toks[statement.next].type = "NEWLINE"
                             THEN statement.next + 1 ELSE statement.next,
                             Append(statements, statement.node),
                             Append(types, statement.value_token))

\* Parser(tokens).parse(): a labels{...} declaration is looked for at the
\* first token only.
parse(toks) ==
    IF toks[1].type = "LABELS"
    THEN LET label_decl == parse_label_declarations(toks, 1)
         IN  IF label_decl.error # "none"
             THEN [statements |-> <<>>, value_tokens |-> <<>>,
                   error |-> label_decl.error]
             ELSE parse_from(toks, label_decl.next, <<label_decl.node>>,
                             <<"none">>)
    ELSE parse_from(toks, 1, <<>>, <<>>)

\* Parser(tokens).parse() on what tokenize returned, if it returned.
parse_tokenized(lexed) ==
    IF lexed.error # "none"
    THEN [statements |-> <<>>, value_tokens |-> <<>>,
          error |-> lexed.error]
    ELSE parse(lexed.tokens)

\* Lexer(text).tokenize() then Parser(tokens).parse(), as
\* load_script_from_string and _load_and_parse_script do.
load(text) == parse_tokenized(tokenize(text))

----------------------------------------------------------------------------
(* Scripts *)

L == <<"L">>

M == <<"M">>

\* Statements a generated script is built from.  M is declared and defined
\* nowhere.
Statements ==
    { LabelNode(L),
      ReplyNode(<<"r", "$", "a">>),
      SetNode(<<"$", "a">>, <<"x">>),
      GetIntentNode(<<"$", "u", "s", "e", "r", "_", "i", "n", "p", "u", "t">>),
      IfNode(<<"$", "i", "n", "t", "e", "n", "t">>, <<"x">>, L),
      GotoNode(L),
      GotoNode(M),
      ExitNode }

\* Parser.parse accepts a labels{...} declaration only as the first statement.
LeadingStatements == Statements \cup {LabelDeclarationsNode(<<L>>)}

GeneratedScripts ==
    UNION { { s \in [1..n -> LeadingStatements] :
                \A i \in 2..n : s[i] \in Statements } : n \in 0..MaxLen }

\* spec section 8, scenario 1
ScriptHiExit == <<ReplyNode(<<"H", "i">>), ExitNode>>

\* spec section 8, scenario 2
ScriptForwardGoto ==
    <<GotoNode(L), ExitNode, LabelNode(L), ReplyNode(<<"o", "k">>)>>

\* the same with the label also named in a leading declaration
ScriptDeclaredForwardGoto ==
    <<LabelDeclarationsNode(<<L>>), GotoNode(L), ExitNode, LabelNode(L),
      ReplyNode(<<"o", "k">>)>>

\* spec section 8, scenario 3
ScriptSetReply ==
    <<SetNode(<<"$", "n">>, <<"B", "o", "b">>),
      ReplyNode(<<"H", "i", " ", "$", "n">>)>>

\* a Set by reference, of a variable that is set and of one that is not
ScriptSetByReference ==
    <<IntentsNode(<< <<"x">> >>),
      SetNode(<<"$", "a">>, <<"$", "i", "n", "t", "e", "n", "t">>),
      ReplyNode(<<"r", "$", "a">>),
      SetNode(<<"$", "a">>, <<"$", "b">>)>>

\* replies whose message is empty: a template of an unset variable, reply ""
ScriptEmptyReplies ==
    <<ReplyNode(<<"$", "b">>), ReplyNode(<<>>), ReplyNode(<<"o", "k">>),
      ExitNode>>

\* one label name defined by two Label statements
ScriptTwoDefinitions ==
    <<LabelNode(L), ReplyNode(<<"a">>), GotoNode(L), LabelNode(L),
      ReplyNode(<<"b">>)>>

ExampleScripts ==
    { ScriptHiExit, ScriptForwardGoto, ScriptDeclaredForwardGoto,
      ScriptSetReply, ScriptSetByReference, ScriptEmptyReplies,
      ScriptTwoDefinitions }

Scripts == GeneratedScripts \cup ExampleScripts

----------------------------------------------------------------------------
(* The session: one script, one RuntimeEnvironment, one Interpreter, and   *)
(* the caller that drives them.                                            *)

VARIABLES
    source,       \* the text the script was loaded from (None: the script
                  \* was built as nodes)
    tokens,       \* the list Lexer.tokenize returned last
    loads,        \* history: calls of Lexer.tokenize on the text so far
    script,       \* script_ast.statements
    runtime,      \* the RuntimeEnvironment
    interpreter,  \* the Interpreter
    ctl,          \* "ready", or the loop the caller is in: "turn", "batch"
    replies,      \* the replies list of the call in progress / last returned
    result,       \* what the last step returned
    error,        \* what the last call raised ("none": nothing)
    iteration_count, \* the loop counter of execute_script
    turns,        \* history: turns (runs) since construction or the last reset
    resets,       \* history: calls of reset_conversation so far
    executed,     \* history: index of the statement executed last, -1: none
    tick,         \* history: parity of the number of statements executed
    value_tokens  \* source: per statement, the type of the token its value
                  \* was parsed from ("none": the statement has no value)

vars ==
    <<source, tokens, loads, script, runtime, interpreter, ctl, replies, result, error,
      iteration_count, turns, resets, executed, tick, value_tokens>>

\* "抱歉，系统出现错误，请稍后再试。" (main_controller.py:346), as one token
FallbackMessage == <<"[sorry]">>

intent_var == <<"$", "i", "n", "t", "e", "n", "t">>

user_input_var == <<"$", "u", "s", "e", "r", "_", "i", "n", "p", "u", "t">>

\* What the caller may write between turns (main_controller.py:289,
\* ui.py:285).
DriverWrites ==
    { <<intent_var, (<<"x">>)>>,
      <<intent_var, (<<"x", "y">>)>>,
      <<user_input_var, (<<"x">>)>> }

machine == [rt |-> runtime, it |-> interpreter, result |-> None, exc |-> "none"]

\* Python truthiness of an Optional[str]
truthy(value) == value # None /\ Len(value) > 0

\* A while condition that does not look at the exit flag.
loop_condition_ignoring_exit(rt, statements) ==
    rt.current_line < Len(statements)

\* while condition of _execute_script (and, with the cap, of
\* _execute_script_phase2)
loop_condition(rt, statements) ==
    rt.current_line < Len(statements) /\ ~rt.should_exit

Init ==
    /\ script \in Scripts
    /\ runtime = RuntimeEnvironment
    /\ interpreter = Interpreter
    /\ ctl = "ready"
    /\ replies = <<>>
    /\ result = None
    /\ error = "none"
    /\ iteration_count = 0
    /\ turns = 0
    /\ resets = 0
    /\ executed = -1
    /\ tick = FALSE
    /\ value_tokens \in value_tokens_of(script)
    /\ source = None
    /\ tokens = <<>>
    /\ loads = 0

\* The compare values of the script's "if $intent == ..." statements, each
\* once (_extract_intents_from_if_statements).
RECURSIVE if_intents(_, _)
if_intents(statements, seen) ==
    IF Len(statements) = 0 THEN <<>>
    ELSE LET node == statements[1]
         IN  IF /\ node.type = "IfNode"
                /\ node.var_name = intent_var
                /\ Len(node.compare_value) > 0
                /\ node.compare_value \notin seen
             THEN <<node.compare_value>>
                  \o if_intents(Tail(statements), seen \cup {node.compare_value})
             ELSE if_intents(Tail(statements), seen)

\* parsed_intents (_extract_dsl_info): the names of the first intents{...}
\* statement, else the intents the if statements compare with.
parsed_intents(statements) ==
    LET intents == SelectSeq(statements, LAMBDA node : node.type = "IntentsNode")
        names == IF Len(intents) > 0
                 THEN SelectSeq(intents[1].intent_names, LAMBDA n : Len(n) > 0)
                 ELSE <<>>
    IN  IF Len(names) > 0 THEN names ELSE if_intents(statements, {})

\* dsl_intents (_initialize_llm_module); "其他" is one token
dsl_intents(statements) ==
    IF Len(parsed_intents(statements)) > 0
    THEN parsed_intents(statements)
    ELSE << <<"[other]">> >>

\* _set_initial_variables; the non-ASCII texts are one token each
set_initial_variables(rt, statements) ==
    LET r1 == set_variable(rt, <<"$", "b", "o", "t", "_", "n", "a", "m", "e">>,
                           <<"D", "S", "L", "[bot]">>)
        r2 == set_variable(r1, <<"$", "w", "e", "l", "c", "o", "m", "e", "_",
                                 "m", "e", "s", "s", "a", "g", "e">>,
                           <<"[welcome]">>)
        r3 == set_variable(r2, user_input_var, <<>>)
        r4 == set_variable(r3, intent_var, <<>>)
    IN  set_variable(r4, <<"$", "d", "s", "l", "_", "i", "n", "t", "e", "n",
                           "t", "s">>, list_value(dsl_intents(statements)))

\* DSLController.initialize, steps 4 and 5 (the script is already loaded)
initialize ==
    /\ ctl = "ready"
    /\ turns = 0
    /\ "get_intent" \notin interpreter.external_functions
    /\ interpreter' = register_function(interpreter, "get_intent")
    /\ runtime' = set_initial_variables(runtime, script)
    /\ UNCHANGED <<source, tokens, loads, script, value_tokens, ctl, replies,
                   result, error, iteration_count, turns, resets, executed,
                   tick>>

\* runtime.set_variable(name, value) by the caller, between turns
driver_set_variable ==
    /\ ctl = "ready"
    /\ \E w \in DriverWrites : runtime' = set_variable(runtime, w[1], w[2])
    /\ UNCHANGED <<source, tokens, loads, script, value_tokens, interpreter,
                   ctl, replies, result, error, iteration_count, turns,
                   resets, executed, tick>>

\* DSLController._execute_script up to the first test of the while condition
execute_script_begin ==
    /\ ctl = "ready"
    /\ turns < MaxTurns
    /\ turns' = turns + 1
    /\ interpreter' = resume_execution(interpreter)
    /\ replies' = <<>>
    /\ error' = "none"
    /\ ctl' = IF loop_condition(runtime, script) THEN "turn" ELSE "ready"
    /\ UNCHANGED <<source, tokens, loads, script, value_tokens, runtime,
                   result, iteration_count, resets, executed, tick>>

\* One iteration of the while loop of _execute_script, up to the next test
\* of its condition, the break or the except clause.
execute_script_loop ==
    /\ ctl = "turn"
    /\ LET m == execute_script_step(machine, script)
       IN  /\ runtime' = m.rt
           /\ interpreter' = m.it
           /\ executed' = runtime.current_line
           /\ IF m.exc # "none"
              THEN /\ replies' = <<FallbackMessage>>
                   /\ UNCHANGED result
                   /\ error' = m.exc
                   /\ ctl' = "ready"
              ELSE /\ replies' = IF truthy(m.result)
                                 THEN Append(replies, m.result)
                                 ELSE replies
                   /\ result' = m.result
                   /\ error' = "none"
                   /\ ctl' = IF m.it.execution_paused THEN "ready"
                             ELSE IF loop_condition(m.rt, script) THEN "turn"
                             ELSE "ready"
    /\ tick' = ~tick
    /\ UNCHANGED <<source, tokens, loads, script, value_tokens,
                   iteration_count, turns, resets>>

\* DSLController._execute_script as one call, from the test of the while
\* condition on: what it returns (replies), the objects as it leaves them
\* (m; m.exc is what the except clause caught) and whether it has returned
\* within the given number of steps.
RECURSIVE execute_script_while(_, _, _, _)
execute_script_while(m, statements, lines, steps) ==
    IF ~loop_condition(m.rt, statements)
    THEN [m |-> m, replies |-> lines, returned |-> TRUE]
    ELSE IF steps = 0
    THEN [m |-> m, replies |-> lines, returned |-> FALSE]
    ELSE LET m1 == execute_script_step(m, statements)
             appended == IF truthy(m1.result)
                         THEN Append(lines, m1.result)
                         ELSE lines
         IN  IF m1.exc # "none"
             THEN [m |-> m1, replies |-> <<FallbackMessage>>,
                   returned |-> TRUE]
             ELSE IF m1.it.execution_paused
             THEN [m |-> m1, replies |-> appended, returned |-> TRUE]
             ELSE execute_script_while(m1, statements, appended,
                                       steps - 1)

\* DSLController._execute_script on the given objects
execute_script_turn(rt, it, statements, steps) ==
    execute_script_while([rt |-> rt, it |-> resume_execution(it),
                          result |-> None, exc |-> "none"],
                         statements, <<>>, steps)

\* The lines the turns of a session return one after the other, for as many
\* turns as given and with no variable written between them: the caller
\* prints them in this order (main_controller.py:292-296).
RECURSIVE session_replies(_, _, _, _)
session_replies(rt, it, statements, turns_left) ==
    IF turns_left = 0 THEN <<>>
    ELSE LET turn == execute_script_turn(rt, it, statements, MaxSteps)
         IN  turn.replies
                 \o (IF turn.returned
                     THEN session_replies(turn.m.rt, turn.m.it, statements,
                                          turns_left - 1)
                     ELSE <<>>)

\* DSLController.reset_conversation, of an initialized controller
reset_conversation ==
    /\ ctl = "ready"
    /\ "get_intent" \in interpreter.external_functions
    /\ resets < MaxResets
    /\ resets' = resets + 1
    /\ runtime' = set_initial_variables(reset(runtime), script)
    /\ turns' = 0
    /\ executed' = -1
    /\ UNCHANGED <<source, tokens, loads, script, value_tokens, interpreter,
                   ctl, replies, result, error, iteration_count, tick>>

\* max_iterations of _execute_script_phase2
max_iterations == 1000

\* while condition of _execute_script_phase2
phase2_condition(rt, statements, count) ==
    loop_condition(rt, statements) /\ count < max_iterations

\* A loop that, stopped by the cap, returns the replies it has.
phase2_outcome_silent(count) == "none"

\* What follows the while loop of _execute_script_phase2 once its condition
\* is false: the raise, or the return of the replies.
phase2_outcome(count) ==
    IF count >= max_iterations THEN "infinite_loop" ELSE "none"

\* Interpreter.execute_script up to the first test of the while condition:
\* _scan_labels, then the start of _execute_script_phase2.
batch_begin ==
    /\ ctl = "ready"
    /\ turns < MaxRuns
    /\ turns' = turns + 1
    /\ LET m  == scan_labels(machine, script)
           rt == [m.rt EXCEPT !.current_line = 0, !.should_exit = FALSE]
       IN  /\ runtime' = rt
           /\ interpreter' = m.it
           /\ IF phase2_condition(rt, script, 0)
              THEN ctl' = "batch" /\ error' = "none"
              ELSE ctl' = "ready" /\ error' = phase2_outcome(0)
    /\ replies' = <<>>
    /\ iteration_count' = 0
    /\ executed' = -1
    /\ UNCHANGED <<source, tokens, loads, script, value_tokens, result,
                   resets, tick>>

\* One iteration of the while loop of _execute_script_phase2, up to the
\* next test of its condition.
batch_loop ==
    /\ ctl = "batch"
    /\ LET m == execute_node(machine, script[runtime.current_line + 1],
                             runtime.current_line)
       IN  /\ executed' = runtime.current_line
           /\ IF m.exc # "none"
              THEN /\ runtime' = m.rt
                   /\ interpreter' = m.it
                   /\ UNCHANGED <<replies, result, iteration_count>>
                   /\ error' = m.exc
                   /\ ctl' = "ready"
              ELSE LET rt == IF ~m.it.has_jumped
                             THEN [m.rt EXCEPT !.current_line = @ + 1]
                             ELSE m.rt
                       count == iteration_count + 1
                   IN  /\ runtime' = rt
                       /\ interpreter' = [m.it EXCEPT !.has_jumped = FALSE]
                       /\ replies' = IF truthy(m.result)
                                     THEN Append(replies, m.result)
                                     ELSE replies
                       /\ result' = m.result
                       /\ iteration_count' = count
                       /\ IF phase2_condition(rt, script, count)
                          THEN ctl' = "batch" /\ error' = "none"
                          ELSE ctl' = "ready" /\ error' = phase2_outcome(count)
    /\ tick' = ~tick
    /\ UNCHANGED <<source, tokens, loads, script, value_tokens, turns,
                   resets>>

\* Interpreter.execute_script_step called by a caller of its own, at any
\* program counter
step_call ==
    /\ ctl = "ready"
    /\ LET m == execute_script_step(machine, script)
       IN  /\ runtime' = m.rt
           /\ interpreter' = m.it
           /\ error' = m.exc
           /\ IF m.exc # "none" THEN UNCHANGED result ELSE result' = m.result
           /\ executed' = IF runtime.current_line < Len(script)
                          THEN runtime.current_line
                          ELSE executed
           /\ tick' = IF runtime.current_line < Len(script) THEN ~tick ELSE tick
    /\ UNCHANGED <<source, tokens, loads, script, value_tokens, ctl, replies,
                   iteration_count, turns, resets>>

\* Interpreter.resume_execution called by that caller
resume_call ==
    /\ ctl = "ready"
    /\ interpreter' = resume_execution(interpreter)
    /\ UNCHANGED <<source, tokens, loads, script, value_tokens, runtime, ctl,
                   replies, result, error, iteration_count, turns, resets,
                   executed, tick>>

----------------------------------------------------------------------------
(* Specifications *)

\* A session driven turn by turn by the main controller.
Next ==
    \/ initialize
    \/ driver_set_variable
    \/ execute_script_begin
    \/ execute_script_loop
    \/ reset_conversation

Spec == Init /\ [][Next]_vars

\* The loop of _execute_script runs on the caller's thread: once entered it
\* keeps iterating.
FairSpec == Spec /\ WF_vars(execute_script_loop)

\* A caller that runs the script with Interpreter.execute_script.
NextBatch ==
    \/ initialize
    \/ driver_set_variable
    \/ batch_begin
    \/ batch_loop

SpecBatch == Init /\ [][NextBatch]_vars

\* A caller that does nothing but run the script with
\* Interpreter.execute_script: no variable is written from outside.
NextRun ==
    \/ batch_begin
    \/ batch_loop

SpecRun == Init /\ [][NextRun]_vars

\* A caller that steps the interpreter itself.
NextStep ==
    \/ initialize
    \/ driver_set_variable
    \/ step_call
    \/ resume_call

SpecStep == Init /\ [][NextStep]_vars

----------------------------------------------------------------------------
(* Interpolation of reply templates: _resolve_variables_in_string applied  *)
(* by a step to the message of a Reply, over bounded templates and         *)
(* variable bindings.                                                      *)

\* Longest generated template.
MaxTemplate == 4

TemplateChars == {"$", "a", "b", " "}

\* "$a $b"
TemplateTwoVariables == <<"$", "a", " ", "$", "b">>

\* "$a and $ab"
TemplatePrefixNames ==
    <<"$", "a", " ", "a", "n", "d", " ", "$", "a", "b">>

Templates ==
    UNION { [1..n -> TemplateChars] : n \in 0..MaxTemplate }
        \cup {TemplateTwoVariables, TemplatePrefixNames}

\* Names of the variables a template may refer to.
TemplateNames == { <<"a">>, <<"b">>, <<"a", "b">> }

\* Values runtime.set_variable may have stored; "$b" is a value that reads
\* like a placeholder.
TemplateValues == { <<"x">>, <<"$", "b">> }

\* The variables dict: any of the names bound, each to any of the values.
Bindings == UNION { [D -> TemplateValues] : D \in SUBSET TemplateNames }

InitInterpolate ==
    /\ script \in { <<ReplyNode(t)>> : t \in Templates }
    /\ runtime \in { [RuntimeEnvironment EXCEPT !.variables = b] : b \in Bindings }
    /\ interpreter = Interpreter
    /\ ctl = "ready"
    /\ replies = <<>>
    /\ result = None
    /\ error = "none"
    /\ iteration_count = 0
    /\ turns = 0
    /\ resets = 0
    /\ executed = -1
    /\ tick = FALSE
    /\ value_tokens \in value_tokens_of(script)
    /\ source = None
    /\ tokens = <<>>
    /\ loads = 0

\* A caller that steps the interpreter over the Reply.
NextInterpolate ==
    \/ step_call
    \/ resume_call

SpecInterpolate == InitInterpolate /\ [][NextInterpolate]_vars

----------------------------------------------------------------------------
(* RuntimeEnvironment.reset applied to environments in any state its       *)
(* public fields and methods can bring about.                              *)

Environments ==
    [ variables       : Bindings,
      labels          : { [n \in D |-> 0] : D \in SUBSET {L, M} },
      current_line    : 0..MaxLen,
      should_exit     : BOOLEAN,
      last_reply      : { None, <<"H", "i">> },
      defined_intents : { <<>>, << <<"x">> >> } ]

InitReset ==
    /\ script \in ExampleScripts
    /\ value_tokens \in value_tokens_of(script)
    /\ source = None
    /\ tokens = <<>>
    /\ loads = 0
    /\ runtime \in Environments
    /\ interpreter = Interpreter
    /\ ctl = "ready"
    /\ replies = <<>>
    /\ result = None
    /\ error = "none"
    /\ iteration_count = 0
    /\ turns = 0
    /\ resets = 0
    /\ executed = -1
    /\ tick = FALSE

\* runtime.reset() called by the holder of the environment
reset_call ==
    /\ resets < MaxResets
    /\ resets' = resets + 1
    /\ runtime' = reset(runtime)
    /\ UNCHANGED <<source, tokens, loads, script, value_tokens, interpreter,
                   ctl, replies, result, error, iteration_count, turns,
                   executed, tick>>

NextReset == reset_call

SpecReset == InitReset /\ [][NextReset]_vars

----------------------------------------------------------------------------
(* The first interpreter (interpreter.py): it runs a whole script in one   *)
(* call and keeps labels and the pending reply in the RuntimeEnvironment. *)
(* Its external_functions maps a name to the registered function, of      *)
(* which the model keeps the number of parameters.                         *)

LegacyInterpreter == [external_functions |-> <<>>, has_jumped |-> FALSE]

legacy_register_function(it, name, func) ==
    [it EXCEPT !.external_functions = dict_set(@, name, func)]

\* RuntimeEnvironment.get_reply: the value it returns ...
get_reply_value(rt) == rt.last_reply

\* A get_reply that leaves the message in the slot.
get_reply_peek(rt) == rt

\* ... and the environment it leaves.
get_reply(rt) == [rt EXCEPT !.last_reply = None]

\* RuntimeEnvironment.jump_to_label, with the callers' reaction to its
\* result: _has_jumped = True, or the raise.
rt_jump_to_label(m, label_name) ==
    IF label_name \in DOMAIN m.rt.labels
    THEN [m EXCEPT !.rt.current_line = m.rt.labels[label_name],
                   !.it.has_jumped = TRUE]
    ELSE raise(m, "label_not_found")

RECURSIVE build_from(_, _, _)
build_from(rt, statements, line_number) ==
    IF line_number >= Len(statements) THEN rt
    ELSE LET node == statements[line_number + 1]
         IN  build_from(IF node.type = "LabelNode"
                        THEN register_label(rt, node.name, line_number)
                        ELSE rt,
                        statements, line_number + 1)

build_label_index(rt, statements) ==
    build_from([rt EXCEPT !.labels = <<>>], statements, 0)

\* all_intents of _collect_intent_definitions, as the set that set() makes
\* of it
RECURSIVE all_intents(_)
all_intents(statements) ==
    IF Len(statements) = 0 THEN {}
    ELSE (IF statements[1].type = "IntentsNode"
          THEN { statements[1].intent_names[k] :
                   k \in 1..Len(statements[1].intent_names) }
          ELSE {}) \cup all_intents(Tail(statements))

\* list(set(all_intents)): the elements once each, in an order that the
\* hashing of the strings decides.
list_of_set(S) ==
    { order \in [1..Cardinality(S) -> S] :
        \A i, j \in 1..Cardinality(S) : order[i] = order[j] => i = j }

\* Interpreter._execute_node of interpreter.py; answer is what the
\* registered get_intent function returns when it is called.
legacy_execute_node(m, node, answer) ==
    LET m0 == [m EXCEPT !.it.has_jumped = FALSE, !.exc = "none"]
    IN  CASE node.type \in {"LabelNode", "IntentsNode"} -> m0
          [] node.type = "GetIntentNode" ->
                 IF "get_intent" \in DOMAIN m0.it.external_functions
                 THEN IF m0.it.external_functions["get_intent"].arity = 2
                      THEN [m0 EXCEPT !.rt = set_variable(@, <<"i", "n", "t",
                                                   "e", "n", "t">>, answer)]
                      ELSE raise(m0, "type_error")
                 ELSE raise(m0, "unregistered_function")
          [] node.type = "ReplyNode" ->
                 [m0 EXCEPT !.rt = set_reply(@,
                     resolve_variables_in_string(m0.rt, node.message))]
          [] node.type = "SetNode" -> execute_set_node(m0, node)
          [] node.type = "IfNode" ->
                 IF get_variable(m0.rt, node.var_name, <<>>) = node.compare_value
                 THEN rt_jump_to_label(m0, node.target_label)
                 ELSE m0
          [] node.type = "GotoNode" -> rt_jump_to_label(m0, node.target_label)
          [] node.type = "ExitNode" -> [m0 EXCEPT !.rt.should_exit = TRUE]
          [] OTHER -> raise(m0, "unknown_node")

\* max_iterations of Interpreter.execute_script of interpreter.py
legacy_max_iterations == 1000

legacy_condition(rt, statements, count) ==
    loop_condition(rt, statements) /\ count < legacy_max_iterations

legacy_outcome(count) ==
    IF count >= legacy_max_iterations THEN "infinite_loop" ELSE "none"

----------------------------------------------------------------------------
(* The core controller (core/controller.py), which drives the first        *)
(* interpreter.                                                            *)

\* Texts a user may enter.
Inputs == { <<"x">>, <<"x", "y">> }

\* What a registered get_intent function may return.
Answers == { <<"x">>, <<"x", "y">> }

\* Numbers of parameters of the functions callers register as get_intent:
\* one (text), or two (text, defined intents).
HookArities == {1, 2}

InitCore ==
    /\ script \in Scripts
    /\ value_tokens \in value_tokens_of(script)
    /\ source = None
    /\ tokens = <<>>
    /\ loads = 0
    /\ runtime = RuntimeEnvironment
    /\ interpreter = LegacyInterpreter
    /\ ctl = "ready"
    /\ replies = <<>>
    /\ result = None
    /\ error = "none"
    /\ iteration_count = 0
    /\ turns = 0
    /\ resets = 0
    /\ executed = -1
    /\ tick = FALSE

\* DSLController.register_external_function("get_intent", func)
register_external_function ==
    /\ ctl = "ready"
    /\ "get_intent" \notin DOMAIN interpreter.external_functions
    /\ \E n \in HookArities :
           interpreter' = legacy_register_function(interpreter, "get_intent",
                                                   [arity |-> n])
    /\ UNCHANGED <<source, tokens, loads, script, value_tokens, runtime, ctl,
                   replies, result, error, iteration_count, turns, resets,
                   executed, tick>>

\* DSLController.execute_script called with the environment as rt, up to
\* the first test of the while condition of Interpreter.execute_script:
\* runtime.reset(), _build_label_index, _collect_intent_definitions.
execute_script_from(rt) ==
    /\ ctl = "ready"
    /\ turns < MaxRuns
    /\ turns' = turns + 1
    /\ \E intents \in list_of_set(all_intents(script)) :
           LET rt1 == build_label_index(reset(rt), script)
               rt2 == [set_defined_intents(rt1, intents)
                          EXCEPT !.current_line = 0, !.should_exit = FALSE]
           IN  /\ runtime' = rt2
               /\ IF legacy_condition(rt2, script, 0)
                  THEN ctl' = "legacy" /\ error' = "none"
                  ELSE ctl' = "ready" /\ error' = legacy_outcome(0)
    /\ replies' = <<>>
    /\ iteration_count' = 0
    /\ executed' = -1
    /\ UNCHANGED <<source, tokens, loads, script, value_tokens, interpreter,
                   result, resets, tick>>

\* DSLController.execute_script
core_execute_script == execute_script_from(runtime)

\* DSLController.execute_with_input(user_input)
execute_with_input(user_input) ==
    execute_script_from(set_variable(runtime, <<"u", "s", "e", "r", "_", "i",
                                                "n", "p", "u", "t">>, user_input))

execute_with_any_input == \E user_input \in Inputs : execute_with_input(user_input)

\* One iteration of the while loop of Interpreter.execute_script of
\* interpreter.py, up to the next test of its condition.
legacy_execute_script_loop ==
    /\ ctl = "legacy"
    /\ \E answer \in Answers :
         LET m == legacy_execute_node(machine, script[runtime.current_line + 1],
                                      answer)
         IN  IF m.exc # "none"
             THEN /\ runtime' = m.rt
                  /\ interpreter' = m.it
                  /\ UNCHANGED <<replies, iteration_count>>
                  /\ error' = m.exc
                  /\ ctl' = "ready"
             ELSE LET reply == get_reply_value(m.rt)
                      rt1   == get_reply(m.rt)
                      rt2   == IF ~m.it.has_jumped
                               THEN [rt1 EXCEPT !.current_line = @ + 1]
                               ELSE rt1
                      count == iteration_count + 1
                  IN  /\ runtime' = rt2
                      /\ interpreter' = [m.it EXCEPT !.has_jumped = FALSE]
                      /\ replies' = IF truthy(reply)
                                    THEN Append(replies, reply)
                                    ELSE replies
                      /\ iteration_count' = count
                      /\ IF legacy_condition(rt2, script, count)
                         THEN ctl' = "legacy" /\ error' = "none"
                         ELSE ctl' = "ready" /\ error' = legacy_outcome(count)
    /\ executed' = runtime.current_line
    /\ tick' = ~tick
    /\ UNCHANGED <<source, tokens, loads, script, value_tokens, result, turns,
                   resets>>

NextCore ==
    \/ register_external_function
    \/ core_execute_script
    \/ execute_with_any_input
    \/ legacy_execute_script_loop

SpecCore == InitCore /\ [][NextCore]_vars

----------------------------------------------------------------------------
(* The RuntimeEnvironment used directly by its holder: the reply slot and  *)
(* the variables dict through their methods (runtime.py,                   *)
(* test_runtime.py).                                                       *)

\* Messages a holder stores with set_reply.
Messages == { <<"H", "i">>, <<"o", "k">> }

\* Names a holder passes to set_variable and get_variable: with and
\* without the sigil, and one that keeps a sigil once the first is taken
\* off.
Names == { <<"a">>, <<"$", "a">>, <<"$", "$", "a">>, <<"b">>, <<"$", "b">> }

\* Values a holder stores.
Values == { <<"x">>, <<"y">> }

\* Defaults a holder passes to get_variable.
Defaults == { None, <<"d">> }

\* Environments whose slot and dict are in any state; the fields that the
\* four methods neither read nor write are as constructed.
HeldEnvironments ==
    { [RuntimeEnvironment EXCEPT !.variables = b, !.last_reply = r] :
        b \in Bindings, r \in { None, <<"H", "i">> } }

InitRuntime ==
    /\ script = ScriptHiExit
    /\ value_tokens \in value_tokens_of(script)
    /\ source = None
    /\ tokens = <<>>
    /\ loads = 0
    /\ runtime \in HeldEnvironments
    /\ interpreter = Interpreter
    /\ ctl = "ready"
    /\ replies = <<>>
    /\ result = None
    /\ error = "none"
    /\ iteration_count = 0
    /\ turns = 0
    /\ resets = 0
    /\ executed = -1
    /\ tick = FALSE

\* runtime.set_reply(message)
set_reply_call(message) ==
    /\ runtime' = set_reply(runtime, message)
    /\ UNCHANGED <<source, tokens, loads, script, value_tokens, interpreter,
                   ctl, replies, result, error, iteration_count, turns,
                   resets, executed, tick>>

set_any_reply == \E message \in Messages : set_reply_call(message)

\* result = runtime.get_reply()
get_reply_call ==
    /\ result' = get_reply_value(runtime)
    /\ runtime' = get_reply(runtime)
    /\ UNCHANGED <<source, tokens, loads, script, value_tokens, interpreter,
                   ctl, replies, error, iteration_count, turns, resets,
                   executed, tick>>

\* runtime.set_variable(name, value)
set_variable_call(name, value) ==
    /\ runtime' = set_variable(runtime, name, value)
    /\ UNCHANGED <<source, tokens, loads, script, value_tokens, interpreter,
                   ctl, replies, result, error, iteration_count, turns,
                   resets, executed, tick>>

set_any_variable ==
    \E name \in Names : \E value \in Values : set_variable_call(name, value)

\* result = runtime.get_variable(name, default)
get_variable_call(name, default) ==
    /\ result' = get_variable(runtime, name, default)
    /\ UNCHANGED <<source, tokens, loads, script, value_tokens, runtime,
                   interpreter, ctl, replies, error, iteration_count, turns,
                   resets, executed, tick>>

get_any_variable ==
    \E name \in Names : \E default \in Defaults :
        get_variable_call(name, default)

NextRuntime ==
    \/ set_any_reply
    \/ get_reply_call
    \/ set_any_variable
    \/ get_any_variable

SpecRuntime == InitRuntime /\ [][NextRuntime]_vars

----------------------------------------------------------------------------
(* Loading a script from its text: Lexer.tokenize called on its own        *)
(* (test_lexer.py), load_script_from_string of the core controller, and    *)
(* initialize of the main controller, after which the turns of the main    *)
(* controller run the script that was loaded.                              *)

\* Most pieces a generated text is made of.
MaxPieces == 3

\* Times the text is tokenized in one session.
MaxLoads == 2

PieceNewline ==
    <<"\n">>

PieceComment ==
    <<"#", "c">>

PieceLabels ==
    <<"l", "a", "b", "e", "l", "s", " ", "{", "a", ":", "}">>

PieceLabel ==
    <<"a", ":">>

PieceReply ==
    <<"r", "e", "p", "l", "y", " ", "\"", "x", "\"">>

PieceQuote ==
    <<"\"">>

PieceSet ==
    <<"s", "e", "t">>

PieceAssigned ==
    <<" ", "$", "a", " ", "=", "=", " ", "\"", "x", "\"">>

SourcePieces ==
    { PieceNewline, PieceComment, PieceLabels, PieceLabel, PieceReply,
      PieceQuote, PieceSet, PieceAssigned }

\* The pieces of a sequence written one after the other.
RECURSIVE join(_)
join(pieces) ==
    IF Len(pieces) = 0 THEN <<>> ELSE pieces[1] \o join(Tail(pieces))

GeneratedSources ==
    UNION { { join(pieces) : pieces \in [1..n -> SourcePieces] } :
              n \in 0..MaxPieces }

\* spec section 8, scenario 3:  set $name = "Bob" / reply "Hi $name"
SourceSetReply ==
    <<"s", "e", "t", " ", "$", "n", "a", "m", "e", " ", "=", " ", "\"",
      "B", "o", "b", "\"", "\n", "r", "e", "p", "l", "y", " ", "\"", "H",
      "i", " ", "$", "n", "a", "m", "e", "\"">>

\* the same with the operator written "=="
SourceSetReplyEquals ==
    <<"s", "e", "t", " ", "$", "n", "a", "m", "e", " ", "=", "=", " ",
      "\"", "B", "o", "b", "\"", "\n", "r", "e", "p", "l", "y", " ", "\"",
      "H", "i", " ", "$", "n", "a", "m", "e", "\"">>

\* spec section 6, the minimal example
SourceMinimalExample ==
    <<"i", "n", "t", "e", "n", "t", "s", " ", "{", "\"", "q", "u", "e",
      "r", "y", "_", "p", "r", "i", "c", "e", "\"", ",", " ", "\"", "a",
      "d", "d", "_", "t", "o", "_", "c", "a", "r", "t", "\"", "}", "\n",
      "s", "t", "a", "r", "t", ":", "\n", " ", " ", " ", " ", "r", "e",
      "p", "l", "y", " ", "\"", "W", "e", "l", "c", "o", "m", "e", "\"",
      "\n", " ", " ", " ", " ", "g", "e", "t", "_", "i", "n", "t", "e",
      "n", "t", " ", "$", "u", "s", "e", "r", "_", "i", "n", "p", "u", "t",
      "\n", " ", " ", " ", " ", "i", "f", " ", "$", "i", "n", "t", "e",
      "n", "t", " ", "=", "=", " ", "\"", "q", "u", "e", "r", "y", "_",
      "p", "r", "i", "c", "e", "\"", " ", "t", "h", "e", "n", " ", "g",
      "o", "t", "o", " ", "p", "r", "i", "c", "e", "\n", " ", " ", " ",
      " ", "r", "e", "p", "l", "y", " ", "\"", "I", " ", "d", "o", "n",
      "'", "t", " ", "u", "n", "d", "e", "r", "s", "t", "a", "n", "d",
      "\"", "\n", " ", " ", " ", " ", "e", "x", "i", "t", "\n", "p", "r",
      "i", "c", "e", ":", "\n", " ", " ", " ", " ", "r", "e", "p", "l",
      "y", " ", "\"", "T", "h", "e", " ", "p", "r", "i", "c", "e", " ",
      "i", "s", " ", "1", "0", "\"", "\n", " ", " ", " ", " ", "e", "x",
      "i", "t", "\n">>

\* the same with the jump target written "price:"
SourceMinimalExampleColon ==
    <<"i", "n", "t", "e", "n", "t", "s", " ", "{", "\"", "q", "u", "e",
      "r", "y", "_", "p", "r", "i", "c", "e", "\"", ",", " ", "\"", "a",
      "d", "d", "_", "t", "o", "_", "c", "a", "r", "t", "\"", "}", "\n",
      "s", "t", "a", "r", "t", ":", "\n", " ", " ", " ", " ", "r", "e",
      "p", "l", "y", " ", "\"", "W", "e", "l", "c", "o", "m", "e", "\"",
      "\n", " ", " ", " ", " ", "g", "e", "t", "_", "i", "n", "t", "e",
      "n", "t", " ", "$", "u", "s", "e", "r", "_", "i", "n", "p", "u", "t",
      "\n", " ", " ", " ", " ", "i", "f", " ", "$", "i", "n", "t", "e",
      "n", "t", " ", "=", "=", " ", "\"", "q", "u", "e", "r", "y", "_",
      "p", "r", "i", "c", "e", "\"", " ", "t", "h", "e", "n", " ", "g",
      "o", "t", "o", " ", "p", "r", "i", "c", "e", ":", "\n", " ", " ",
      " ", " ", "r", "e", "p", "l", "y", " ", "\"", "I", " ", "d", "o",
      "n", "'", "t", " ", "u", "n", "d", "e", "r", "s", "t", "a", "n", "d",
      "\"", "\n", " ", " ", " ", " ", "e", "x", "i", "t", "\n", "p", "r",
      "i", "c", "e", ":", "\n", " ", " ", " ", " ", "r", "e", "p", "l",
      "y", " ", "\"", "T", "h", "e", " ", "p", "r", "i", "c", "e", " ",
      "i", "s", " ", "1", "0", "\"", "\n", " ", " ", " ", " ", "e", "x",
      "i", "t", "\n">>

\* test_lexer.py, test_label_token
SourceMainLoop ==
    <<"m", "a", "i", "n", "_", "l", "o", "o", "p", ":">>

\* labels whose names begin as a keyword is spelled
SourceReplyDone ==
    <<"r", "e", "p", "l", "y", "_", "d", "o", "n", "e", ":">>

\* settings:
SourceSettings ==
    <<"s", "e", "t", "t", "i", "n", "g", "s", ":">>

\* iffy:
SourceIffy ==
    <<"i", "f", "f", "y", ":">>

\* goto_next:
SourceGotoNext ==
    <<"g", "o", "t", "o", "_", "n", "e", "x", "t", ":">>

\* a string literal closed on the line after the one it opens on
SourceStringOverLines ==
    <<"r", "e", "p", "l", "y", " ", "\"", "a", "\n", "b", "\"", "\n", "e",
      "x", "i", "t">>

\* a labels{...} declaration after a blank line and a comment line
SourceLabelsAfterComment ==
    <<"\n", "#", " ", "c", "\n", "l", "a", "b", "e", "l", "s", " ", "{",
      "a", ":", "}", "\n", "a", ":", "\n", "e", "x", "i", "t">>

\* a label whose name begins as the keyword the alternation tries last
\* is spelled
SourceExitNow ==
    <<"e", "x", "i", "t", "_", "n", "o", "w", ":">>

\* test_parser.py, test_parse_pause_for_input
SourcePause ==
    <<"p", "a", "u", "s", "e", "_", "f", "o", "r", "_", "u", "s", "e", "r",
      "_", "i", "n", "p", "u", "t">>

\* pause_for_user_input among other statements
SourcePauseAmongOthers ==
    <<"r", "e", "p", "l", "y", " ", "\"", "x", "\"", "\n", "p", "a", "u",
      "s", "e", "_", "f", "o", "r", "_", "u", "s", "e", "r", "_", "i", "n",
      "p", "u", "t", "\n", "e", "x", "i", "t">>

ExampleSources ==
    { SourceSetReply,
      SourceSetReplyEquals,
      SourceMinimalExample,
      SourceMinimalExampleColon,
      SourceMainLoop,
      SourceReplyDone,
      SourceSettings,
      SourceIffy,
      SourceGotoNext,
      SourceStringOverLines,
      SourceLabelsAfterComment,
      SourceExitNow,
      SourcePause,
      SourcePauseAmongOthers }

Sources == GeneratedSources \cup ExampleSources

InitLoad ==
    /\ source \in Sources
    /\ tokens = <<>>
    /\ loads = 0
    /\ script = <<>>
    /\ value_tokens = <<>>
    /\ runtime = RuntimeEnvironment
    /\ interpreter = Interpreter
    /\ ctl = "unloaded"
    /\ replies = <<>>
    /\ result = None
    /\ error = "none"
    /\ iteration_count = 0
    /\ turns = 0
    /\ resets = 0
    /\ executed = -1
    /\ tick = FALSE

\* A tokenize that goes on from the list that the call before it returned.
tokenize_source_appending == tokenize_from(source, 0, 1, tokens)

\* Lexer(source).tokenize() on the text of the session: a new Lexer, and
\* tokenize starts from an empty list.
tokenize_source == tokenize(source)

\* tokens = Lexer(source).tokenize()
tokenize_call ==
    /\ ctl = "unloaded"
    /\ loads < MaxLoads
    /\ loads' = loads + 1
    /\ LET lexed == tokenize_source
       IN  /\ tokens' = lexed.tokens
           /\ error' = lexed.error
    /\ UNCHANGED <<source, script, value_tokens, runtime, interpreter, ctl,
                   replies, result, iteration_count, turns, resets, executed,
                   tick>>

\* DSLController.load_script_from_string(source) of core/controller.py,
\* called for the first time or again
load_script_from_string ==
    /\ ctl \in {"unloaded", "loaded"}
    /\ loads < MaxLoads
    /\ loads' = loads + 1
    /\ LET lexed == tokenize_source
           loaded == parse_tokenized(lexed)
       IN  /\ tokens' = lexed.tokens
           /\ error' = loaded.error
           /\ IF loaded.error = "none"
              THEN /\ script' = loaded.statements
                   /\ value_tokens' = loaded.value_tokens
                   /\ ctl' = "loaded"
              ELSE UNCHANGED <<script, value_tokens, ctl>>
    /\ UNCHANGED <<source, runtime, interpreter, replies, result,
                   iteration_count, turns, resets, executed, tick>>

\* DSLController.initialize of main_controller.py: _load_and_parse_script,
\* then _register_external_functions and _set_initial_variables
initialize_from_text ==
    /\ ctl = "unloaded"
    /\ loads < MaxLoads
    /\ loads' = loads + 1
    /\ LET lexed == tokenize_source
           loaded == parse_tokenized(lexed)
       IN  /\ tokens' = lexed.tokens
           /\ error' = loaded.error
           /\ IF loaded.error = "none"
              THEN /\ script' = loaded.statements
                   /\ value_tokens' = loaded.value_tokens
                   /\ interpreter' = register_function(interpreter,
                                                       "get_intent")
                   /\ runtime' = set_initial_variables(runtime,
                                                       loaded.statements)
                   /\ ctl' = "ready"
              ELSE UNCHANGED <<script, value_tokens, interpreter, runtime,
                               ctl>>
    /\ UNCHANGED <<source, replies, result, iteration_count, turns, resets,
                   executed, tick>>

NextLoad ==
    \/ tokenize_call
    \/ load_script_from_string
    \/ initialize_from_text
    \/ execute_script_begin
    \/ execute_script_loop

SpecLoad == InitLoad /\ [][NextLoad]_vars

----------------------------------------------------------------------------
(* Runs of Interpreter.execute_script that end close to the cap of its     *)
(* loop: scripts that count the passes of a goto loop in a chain of        *)
(* variables and leave the loop after the last pass.                       *)

\* Variables of the chain: $c, $cc, $ccc, ...
chain_var(i) == <<"$">> \o [k \in 1..(i + 1) |-> "c"]

\* What a run executes without the pad.
counted(passes) == passes * passes + 3 * passes + 3

\* Passes of the loop: as many as leave room for a pad below the cap.
Passes ==
    CHOOSE p \in 1..max_iterations :
        /\ counted(p) < max_iterations
        /\ counted(p + 1) >= max_iterations

\*     set $a == "x"                     (pad times)
\*     set $c == "x"
\*     set $cc == "o"  ...               (one per pass)
\* L:
\*     set $c..c == $c..  ...            (one per pass: the chain moves on)
\*     if $c..c == "x" then goto M:
\*     goto L:
\* M:
\*     exit                              (with_exit)
\* A run executes pad + counted(Passes) statements, the Exit among them.
counting_script(pad, with_exit) ==
    [i \in 1..pad |-> SetNode(<<"$", "a">>, <<"x">>)]
        \o <<SetNode(chain_var(0), <<"x">>)>>
        \o [i \in 1..Passes |-> SetNode(chain_var(i), <<"o">>)]
        \o <<LabelNode(L)>>
        \o [i \in 1..Passes |->
                SetNode(chain_var(Passes + 1 - i), chain_var(Passes - i))]
        \o <<IfNode(chain_var(Passes), <<"x">>, M), GotoNode(L), LabelNode(M)>>
        \o (IF with_exit THEN <<ExitNode>> ELSE <<>>)

\* The pad with which a run executes the given number of statements.
pad_for(statements, with_exit) ==
    statements - counted(Passes) + (IF with_exit THEN 0 ELSE 1)

\* Scripts whose run executes one statement less than the cap, and as many
\* as the cap.
CountingScripts ==
    { counting_script(pad_for(n, with_exit), with_exit) :
        n \in {max_iterations - 1, max_iterations},
        with_exit \in BOOLEAN }

InitCounting ==
    /\ script \in CountingScripts
    /\ value_tokens = [i \in 1..Len(script) |->
                           IF script[i].type # "SetNode" THEN "none"
                           ELSE IF is_variable_text(script[i].value)
                           THEN "VARIABLE"
                           ELSE "STRING"]
    /\ source = None
    /\ tokens = <<>>
    /\ loads = 0
    /\ runtime = RuntimeEnvironment
    /\ interpreter = Interpreter
    /\ ctl = "ready"
    /\ replies = <<>>
    /\ result = None
    /\ error = "none"
    /\ iteration_count = 0
    /\ turns = 0
    /\ resets = 0
    /\ executed = -1
    /\ tick = FALSE

SpecCounting == InitCounting /\ [][NextRun]_vars

----------------------------------------------------------------------------
(* Vocabulary of the properties *)

pc == runtime.current_line

node_at(i) == script[i + 1]

paused == interpreter.execution_paused

PausingTypes == {"ReplyNode", "GetIntentNode"}

\* The statement at the program counter is a Goto, or an If whose condition
\* holds in the current state.
jumps_now ==
    /\ pc < Len(script)
    /\ \/ node_at(pc).type = "GotoNode"
       \/ /\ node_at(pc).type = "IfNode"
          /\ get_variable(runtime, node_at(pc).var_name, <<>>)
                 = node_at(pc).compare_value

\* Indices of the Label statements that define the name.
label_positions(name) ==
    { j \in 0..(Len(script) - 1) :
        node_at(j).type = "LabelNode" /\ node_at(j).name = name }

\* The names a labels{...} declaration of the script declares.
declared_names ==
    { name \in {L, M} :
        \E j \in 0..(Len(script) - 1) :
            /\ node_at(j).type = "LabelDeclarationsNode"
            /\ \E k \in 1..Len(node_at(j).label_names) :
                   node_at(j).label_names[k] = name }

\* The label table holds a location for the name.
located(name) ==
    /\ name \in DOMAIN interpreter.label_cache
    /\ interpreter.label_cache[name] # -1

----------------------------------------------------------------------------
(* C1 *)

\* C1 as claimed: a step that executes a Reply or a GetIntent at index i
\* leaves the interpreter paused with the program counter still i.
C1_PausesBeforeAdvancing ==
    [][ (execute_script_loop /\ node_at(pc).type \in PausingTypes)
            => (paused' /\ runtime'.current_line = pc) ]_vars

\* C1 amended: a step that executes a Reply or a GetIntent at index i ends
\* the turn paused with the program counter already at i + 1, and nothing
\* but reset_conversation moves the counter before the next turn's first
\* step, so the turn after resume_execution() begins at i + 1.
C1_PausesAfterAdvancing ==
    [][ /\ (execute_script_loop /\ node_at(pc).type \in PausingTypes)
            => /\ paused'
               /\ runtime'.current_line = pc + 1
               /\ ctl' = "ready"
        /\ (ctl = "ready" /\ resets' = resets)
            => runtime'.current_line = pc
        /\ execute_script_begin => ~paused' ]_vars

\* A following turn has begun right behind the Reply that paused the last.
C1_Witness ==
    /\ ctl = "turn"
    /\ turns >= 2
    /\ executed # -1
    /\ node_at(executed).type = "ReplyNode"
    /\ pc = executed + 1
    /\ ~paused

----------------------------------------------------------------------------
(* C2 *)

\* C2: the turns of [Reply "Hi", Exit] return ["Hi"] (paused for a reply,
\* exit flag unset) and then [] (not paused, exit flag set); and in every
\* script the first statement executed by the turn that follows a
\* reply-pause is the one behind that Reply, not the Reply again.
C2_ReplyDeliveredOnce ==
    /\ []( (script = ScriptHiExit /\ ctl = "ready") =>
            /\ turns = 1 =>
                   /\ replies = << <<"H", "i">> >>
                   /\ paused
                   /\ interpreter.pause_reason = "reply"
                   /\ ~runtime.should_exit
            /\ turns = 2 =>
                   /\ replies = <<>>
                   /\ ~paused
                   /\ runtime.should_exit )
    /\ [][ (/\ execute_script_loop
            /\ executed # -1
            /\ node_at(executed).type = "ReplyNode")
               => executed' = executed + 1 ]_vars

\* The second turn of [Reply "Hi", Exit] has returned.
C2_Witness ==
    /\ script = ScriptHiExit
    /\ ctl = "ready"
    /\ turns = 2
    /\ replies = <<>>
    /\ runtime.should_exit

----------------------------------------------------------------------------
(* C3 *)

\* Where the label-resolution protocol sends a jump to a located label.
resolved_target(name) ==
    IF interpreter.label_cache[name] \in interpreter.label_statements_processed
    THEN interpreter.label_cache[name] + 1
    ELSE interpreter.label_cache[name]

\* C3: a step that returns, called with PC < len(script), executes the
\* statement at PC and then has PC + 1 after a Label, LabelDecl, Intents,
\* Set, Exit or an If whose condition is false, and has the resolved jump
\* target (not incremented) after a Goto or matching If whose label is
\* located; a step called with PC >= len(script) changes neither object.
C3_StepMovesCounter ==
    [][ step_call =>
          IF pc >= Len(script)
          THEN runtime' = runtime /\ interpreter' = interpreter
          ELSE error' = "none" =>
                 /\ executed' = pc
                 /\ node_at(pc).type \in
                        {"LabelNode", "LabelDeclarationsNode", "IntentsNode",
                         "SetNode", "ExitNode"}
                      => runtime'.current_line = pc + 1
                 /\ (node_at(pc).type = "IfNode" /\ ~jumps_now)
                      => runtime'.current_line = pc + 1
                 /\ (jumps_now /\ located(node_at(pc).target_label))
                      => runtime'.current_line
                             = resolved_target(node_at(pc).target_label) ]_vars

\* A Goto has just jumped to a located label.
C3_Witness ==
    /\ executed # -1
    /\ node_at(executed).type = "GotoNode"
    /\ error = "none"
    /\ interpreter.has_jumped
    /\ located(node_at(executed).target_label)
    /\ pc = interpreter.label_cache[node_at(executed).target_label] + 1

----------------------------------------------------------------------------
(* C4 *)

\* C4 as claimed: in batch execution a Goto or matching If whose label is
\* defined at a later index moves the program counter to that label's
\* position (the Label statement or the statement behind it), and executing
\* the LabelDecl leaves every located label located.
C4_ForwardGotoInBatch ==
    [][ batch_loop =>
          /\ (/\ jumps_now
              /\ \E j \in label_positions(node_at(pc).target_label) : j > pc)
               => /\ error' = "none"
                  /\ \E j \in label_positions(node_at(pc).target_label) :
                         runtime'.current_line \in {j, j + 1}
          /\ node_at(pc).type = "LabelDeclarationsNode"
               => \A name \in DOMAIN interpreter.label_cache :
                      located(name) => interpreter'.label_cache[name] # -1 ]_vars

----------------------------------------------------------------------------
(* C5 *)

\* C5 as claimed: the first turn of [Goto L, Exit, Label L, Reply "ok"]
\* returns ["ok"] and ends paused for a reply with the exit flag unset.
C5_ForwardGotoInFirstTurn ==
    (script = ScriptForwardGoto /\ ctl = "ready" /\ turns = 1 /\ resets = 0) =>
        /\ replies = << <<"o", "k">> >>
        /\ paused
        /\ interpreter.pause_reason = "reply"
        /\ ~runtime.should_exit

----------------------------------------------------------------------------
(* C6 *)

\* C6: a Goto or matching If naming a label that the script neither declares
\* nor defines raises the undeclared-label error: the program counter stays,
\* and the turn ends there with the fallback message.
C6_UndeclaredLabelFails ==
    [][ (/\ execute_script_loop
         /\ jumps_now
         /\ label_positions(node_at(pc).target_label) = {}
         /\ node_at(pc).target_label \notin declared_names)
            => /\ error' = "undeclared_label"
               /\ runtime'.current_line = pc
               /\ executed' = pc
               /\ ctl' = "ready"
               /\ replies' = <<FallbackMessage>> ]_vars

\* A turn has failed at a Goto to the label M.
C6_Witness ==
    /\ ctl = "ready"
    /\ error = "undeclared_label"
    /\ executed = pc
    /\ node_at(pc).type = "GotoNode"
    /\ node_at(pc).target_label = M

----------------------------------------------------------------------------
(* C7 *)

\* C7 as claimed: a Goto or matching If whose label is declared but not
\* located when the jump executes raises an error and does not advance.
C7_UnlocatedLabelIsError ==
    [][ (/\ execute_script_loop
         /\ jumps_now
         /\ node_at(pc).target_label \in DOMAIN interpreter.label_cache
         /\ ~located(node_at(pc).target_label))
            => /\ error' # "none"
               /\ runtime'.current_line = pc ]_vars

----------------------------------------------------------------------------
(* C8 *)

\* C8 as claimed: after a jump to a label located at index i the program
\* counter is i + 1.
C8_JumpLandsBehindLabel ==
    [][ (/\ batch_loop
         /\ jumps_now
         /\ located(node_at(pc).target_label)
         /\ error' = "none")
            => runtime'.current_line
                   = interpreter.label_cache[node_at(pc).target_label] + 1 ]_vars

----------------------------------------------------------------------------
(* C9 *)

\* C9 as claimed: every turn terminates.
C9_EveryTurnTerminates == (ctl = "turn") ~> (ctl = "ready")

----------------------------------------------------------------------------
(* C10 *)

\* C10 as claimed: with no "get_intent" function registered, the first step
\* of the turn that resumes behind a GetIntent raises the
\* unregistered-function error instead of executing the next statement.
C10_UnregisteredHookFails ==
    [][ (/\ execute_script_loop
         /\ executed # -1
         /\ node_at(executed).type = "GetIntentNode"
         /\ "get_intent" \notin interpreter.external_functions)
            => /\ error' = "unregistered_function"
               /\ runtime'.current_line = pc ]_vars

----------------------------------------------------------------------------
(* C11 *)

----------------------------------------------------------------------------
(* C12 *)

\* C12 as claimed: with $a holding "$b" and $b holding "x", the template
\* "$a $b" is interpolated to "$b x": text that a value brings in is not
\* substituted again.
C12_SinglePassExample ==
    (/\ script = <<ReplyNode(TemplateTwoVariables)>>
     /\ DOMAIN runtime.variables = { <<"a">>, <<"b">> }
     /\ runtime.variables[<<"a">>] = <<"$", "b">>
     /\ runtime.variables[<<"b">>] = <<"x">>
     /\ executed = 0)
        => result = <<"$", "b", " ", "x">>

----------------------------------------------------------------------------
(* C13 *)

\* The claimed result: every placeholder of the text from index i on, the
\* sigil with the longest identifier behind it, replaced by the value bound
\* to that name or by nothing, all other characters kept.
RECURSIVE placeholders_replaced(_, _)
placeholders_replaced(text, i) ==
    IF i > Len(text) THEN <<>>
    ELSE IF text[i] = "$" /\ i + 1 <= Len(text) /\ text[i + 1] \in IdStart
    THEN LET e    == ident_end(text, i + 2)
             name == SubSeq(text, i + 1, e - 1)
         IN  (IF name \in DOMAIN runtime.variables
              THEN runtime.variables[name]
              ELSE <<>>) \o placeholders_replaced(text, e)
    ELSE <<text[i]>> \o placeholders_replaced(text, i + 1)

\* C13 as claimed: the reply of a template is the template with every
\* placeholder replaced by the value of exactly its variable (nothing when
\* unset); stated for values that contain no sigil, so that no value reads
\* like a placeholder.
C13_EveryPlaceholderReplaced ==
    (/\ executed = 0
     /\ \A name \in DOMAIN runtime.variables :
            \A k \in 1..Len(runtime.variables[name]) :
                runtime.variables[name][k] # "$")
        => result = placeholders_replaced(node_at(0).message, 1)

----------------------------------------------------------------------------
(* C14 *)

\* C14: a Set whose value was written as a variable reference raises the
\* undefined-variable error when the referenced variable has no binding,
\* and then no variable changes; when it has one, the step raises nothing
\* and binds the target to that value, every other variable unchanged.
C14_SetByReference ==
    [][ (/\ execute_script_loop
         /\ node_at(pc).type = "SetNode"
         /\ value_tokens[pc + 1] = "VARIABLE") =>
          LET ref    == Tail(node_at(pc).value)
              target == Tail(node_at(pc).var_name)
          IN  IF ref \in DOMAIN runtime.variables
              THEN /\ error' = "none"
                   /\ DOMAIN runtime'.variables
                          = DOMAIN runtime.variables \cup {target}
                   /\ runtime'.variables[target] = runtime.variables[ref]
                   /\ \A n \in DOMAIN runtime.variables \ {target} :
                          runtime'.variables[n] = runtime.variables[n]
              ELSE /\ error' = "undefined_variable"
                   /\ runtime'.variables = runtime.variables ]_vars

\* A Set from an unset variable has failed and its target keeps the value
\* an earlier Set by reference gave it.
C14_Witness ==
    /\ error = "undefined_variable"
    /\ executed = 3
    /\ script = ScriptSetByReference
    /\ value_tokens[4] = "VARIABLE"
    /\ value_tokens[2] = "VARIABLE"
    /\ <<"a">> \in DOMAIN runtime.variables
    /\ <<"i", "n", "t", "e", "n", "t">> \in DOMAIN runtime.variables
    /\ runtime.variables[<<"a">>] = runtime.variables[<<"i", "n", "t", "e", "n", "t">>]

----------------------------------------------------------------------------
(* C15 *)

\* C15 as claimed: a Set whose value was written as a string literal raises
\* nothing and binds its target to exactly the text of the literal, also
\* when that text begins with the sigil.
C15_SetLiteralStoresText ==
    [][ (/\ execute_script_loop
         /\ node_at(pc).type = "SetNode"
         /\ value_tokens[pc + 1] = "STRING") =>
          /\ error' = "none"
          /\ Tail(node_at(pc).var_name) \in DOMAIN runtime'.variables
          /\ runtime'.variables[Tail(node_at(pc).var_name)]
                 = node_at(pc).value ]_vars

----------------------------------------------------------------------------
(* C16 *)

\* C16: when a statement raises inside a turn, the turn ends and the
\* variables are exactly those of the state the failing statement started
\* in: the writes of the statements executed before it are all kept.
C16_NoRollbackOnError ==
    [][ (execute_script_loop /\ error' # "none") =>
          /\ runtime'.variables = runtime.variables
          /\ ctl' = "ready" ]_vars

\* The first turn has failed at its second statement, and the variable the
\* first statement set is still bound.
C16_Witness ==
    /\ ctl = "ready"
    /\ error # "none"
    /\ turns = 1
    /\ resets = 0
    /\ executed = 1
    /\ node_at(0) = SetNode(<<"$", "a">>, <<"x">>)
    /\ <<"a">> \in DOMAIN runtime.variables
    /\ runtime.variables[<<"a">>] = <<"x">>

----------------------------------------------------------------------------
(* C17 *)

\* C17: every entry of the label table is the sentinel -1 or the index,
\* inside the script, of a Label statement of that name.
C17_LabelTableInScript ==
    \A name \in DOMAIN interpreter.label_cache :
        \/ interpreter.label_cache[name] = -1
        \/ /\ interpreter.label_cache[name] \in 0..(Len(script) - 1)
           /\ interpreter.label_cache[name] \in label_positions(name)

\* The scan has located the label of the last but one statement of a
\* script whose first statement declares it.
C17_Witness ==
    /\ script = ScriptDeclaredForwardGoto
    /\ L \in DOMAIN interpreter.label_cache
    /\ interpreter.label_cache[L] = 3

----------------------------------------------------------------------------
(* C18 *)

\* C18 as claimed: the scan of a script that defines a label at two
\* different indices reports the redefinition: the run raises instead of
\* going on with the later location in the table.
C18_RedefinitionReported ==
    [][ (/\ batch_begin
         /\ \E name \in {L, M} : Cardinality(label_positions(name)) > 1)
            => error' # "none" ]_vars

----------------------------------------------------------------------------
(* C19 *)

\* C19: reset() leaves the environment with no variables, no labels,
\* program counter 0, the exit flag false and no pending reply; it is the
\* same object, so what reset() does not clear (the defined intents) is
\* still there.
C19_ResetClearsEnvironment ==
    [][ reset_call =>
          /\ runtime'.variables = <<>>
          /\ runtime'.labels = <<>>
          /\ runtime'.current_line = 0
          /\ ~runtime'.should_exit
          /\ runtime'.last_reply = None
          /\ runtime'.defined_intents = runtime.defined_intents ]_vars

\* An environment that had intents defined has been reset.
C19_Witness ==
    /\ resets = 1
    /\ runtime.defined_intents = << <<"x">> >>
    /\ runtime.variables = <<>>
    /\ runtime.labels = <<>>
    /\ runtime.current_line = 0

----------------------------------------------------------------------------
(* C20 *)

\* C20 as claimed: execute_with_input(u) starts the run of the script with
\* the variable user_input bound to u, which is what the first statement
\* executed observes.
C20_RunSeesUserInput ==
    [][ \A u \in Inputs :
          execute_with_input(u) =>
              /\ <<"u", "s", "e", "r", "_", "i", "n", "p", "u", "t">>
                     \in DOMAIN runtime'.variables
              /\ runtime'.variables[<<"u", "s", "e", "r", "_", "i", "n", "p",
                                       "u", "t">>] = u ]_vars

----------------------------------------------------------------------------
(* C21 *)

\* C21: the reply slot has take semantics.  set_reply(message) leaves
\* message in the slot whatever was there (taken or not); get_reply returns
\* what the slot holds and leaves it empty; and nothing else fills the slot,
\* so a get_reply that follows a get_reply with no set_reply in between
\* returns None.
C21_ReplySlotTake ==
    [][ /\ \A message \in Messages :
              set_reply_call(message) => runtime'.last_reply = message
        /\ get_reply_call =>
              /\ result' = runtime.last_reply
              /\ runtime'.last_reply = None
        /\ (set_any_variable \/ get_any_variable) =>
              runtime'.last_reply = runtime.last_reply ]_vars

\* A message was taken: the caller holds it and the slot is empty.
C21_Witness == result \in Messages /\ runtime.last_reply = None

----------------------------------------------------------------------------
(* C22 *)

\* C22: variable names are normalized without the sigil.  After
\* set_variable(n, v) a get_variable of any name that equals n once one
\* leading "$" is taken off both returns v, whatever the default; the dict
\* gains an entry only if the normalized name was not in it; and
\* get_variable of a name never set returns the caller's default.
C22_NamesNormalized ==
    [][ /\ \A n \in Names : \A v \in Values :
              set_variable_call(n, v) =>
                  /\ \A n2 \in Names : \A d \in Defaults :
                         strip_sigil(n2) = strip_sigil(n)
                             => get_variable(runtime', n2, d) = v
                  /\ DOMAIN runtime'.variables
                         = DOMAIN runtime.variables \cup {strip_sigil(n)}
        /\ \A n \in Names : \A d \in Defaults :
              (get_variable_call(n, d)
                   /\ strip_sigil(n) \notin DOMAIN runtime.variables)
                  => result' = d ]_vars

\* A name written with the sigil was set, and the value was overwritten
\* under the same entry.
C22_Witness ==
    /\ <<"a">> \in DOMAIN runtime.variables
    /\ runtime.variables[<<"a">>] = <<"y">>
    /\ <<"$", "a">> \in DOMAIN runtime.variables

----------------------------------------------------------------------------
(* C23 *)

\* C23: the assignment operator of Set is a single "=".  The text
\* set $name = "Bob" / reply "Hi $name" is tokenized and loaded without an
\* error, and the first turn of the script it loads into returns
\* ["Hi Bob"].
C23_SingleEqualsLoadsAndRuns ==
    source = SourceSetReply =>
        /\ error = "none"
        /\ (ctl = "ready" /\ turns = 1)
               => replies = << <<"H", "i", " ", "B", "o", "b">> >>

----------------------------------------------------------------------------
(* C24 *)

\* C24: a jump target written as a bare label name is accepted.  The
\* minimal example of the specification, with "then goto price", is
\* tokenized and loaded without an error into a script whose If has the
\* target label "price".
C24_BareJumpTargetLoads ==
    source = SourceMinimalExample =>
        /\ error = "none"
        /\ ctl # "unloaded" =>
               \E i \in 1..Len(script) :
                   /\ script[i].type = "IfNode"
                   /\ script[i].target_label = <<"p", "r", "i", "c", "e">>

----------------------------------------------------------------------------
(* C25 *)

\* The text is an identifier: [a-zA-Z_][a-zA-Z0-9_]* and nothing else.
is_identifier(text) ==
    /\ Len(text) >= 1
    /\ text[1] \in IdStart
    /\ ident_end(text, 2) = Len(text) + 1

\* Lexer.tokenize has been called on the text.
tokenized == tokens # <<>> \/ error = "unknown_character"

\* C25: for every identifier id, the text "id:" is tokenized as one label
\* token whose text is id without the ":" (followed by the end-of-input
\* token), also when id begins as a keyword is spelled.
C25_IdentifierColonIsOneLabel ==
    (/\ tokenized
     /\ Len(source) >= 2
     /\ source[Len(source)] = ":"
     /\ is_identifier(SubSeq(source, 1, Len(source) - 1)))
        => tokens = << TokenAt("LABEL", SubSeq(source, 1, Len(source) - 1), 1),
                       TokenAt("EOF", <<>>, 1) >>

----------------------------------------------------------------------------
(* C26 *)

\* Number of newlines in a text.
RECURSIVE newlines(_)
newlines(text) ==
    IF Len(text) = 0 THEN 0
    ELSE (IF text[1] = "\n" THEN 1 ELSE 0) + newlines(Tail(text))

\* C26: no token spans a newline.  No token but the one that stands for
\* a newline has a newline in its text, and line numbers count the
\* newlines of the source: the end-of-input token, which every newline of
\* the source is before, is on line one plus their number.
C26_NoTokenSpansNewline ==
    \A k \in 1..Len(tokens) :
        /\ tokens[k].type # "NEWLINE" =>
               \A j \in 1..Len(tokens[k].value) : tokens[k].value[j] # "\n"
        /\ tokens[k].type = "EOF" => tokens[k].line = 1 + newlines(source)

----------------------------------------------------------------------------
(* C27 *)

\* Texts whose first statement is a labels{...} declaration that blank
\* lines or comment lines precede.
SourcesLabelsNotAtStart ==
    { SourceLabelsAfterComment,
      join(<<PieceNewline, PieceLabels>>),
      join(<<PieceNewline, PieceLabels, PieceLabel>>),
      join(<<PieceComment, PieceNewline, PieceLabels>>) }

\* C27: a labels{...} declaration that is the first statement of the
\* source is parsed into the declaration node at index 0 of the script
\* also when blank lines or comment lines precede it.
C27_LeadingLabelsAfterBlankLines ==
    source \in SourcesLabelsNotAtStart =>
        /\ error = "none"
        /\ ctl # "unloaded" =>
               /\ Len(script) >= 1
               /\ script[1].type = "LabelDeclarationsNode"

----------------------------------------------------------------------------
(* C28 *)

\* C28: pause_for_user_input is part of the language.  The text that
\* consists of it loads into a script of exactly one PauseForInputNode,
\* and it loads without an error among other statements.
C28_PauseStatementAccepted ==
    /\ source = SourcePause =>
           /\ error = "none"
           /\ ctl # "unloaded" => script = <<PauseForInputNode>>
    /\ source = SourcePauseAmongOthers =>
           /\ error = "none"
           /\ ctl # "unloaded" =>
                  \E i \in 1..Len(script) : script[i] = PauseForInputNode

----------------------------------------------------------------------------
(* C29 *)

----------------------------------------------------------------------------
(* C30 *)

\* Scripts that end in a goto cycle with no Exit: the last statement is a
\* Goto to a label that a Label statement before it defines, and no other
\* statement jumps, exits, or waits for an intent.
GotoCycles ==
    { s \in Scripts :
        /\ Len(s) >= 2
        /\ s[Len(s)] = GotoNode(L)
        /\ \E i \in 1..(Len(s) - 1) : s[i] = LabelNode(L)
        /\ \A k \in 1..(Len(s) - 1) :
               s[k].type \in {"LabelDeclarationsNode", "LabelNode",
                              "ReplyNode", "SetNode"} }

\* C30: in batch execution a goto cycle with no Exit executes exactly the
\* cap of 1000 statements and then raises the possible-infinite-loop error.
\* No run executes more than 1000 statements; the loop is left at 1000 at
\* the latest; and a run of a goto cycle ends only by that error, after
\* exactly 1000 statements, never by returning its replies.
C30_BatchCycleHitsCap ==
    /\ iteration_count <= max_iterations
    /\ ctl = "batch" => iteration_count < max_iterations
    /\ (script \in GotoCycles /\ turns >= 1 /\ ctl = "ready") =>
           /\ error = "infinite_loop"
           /\ iteration_count = max_iterations

\* L: goto L was run to the cap.
C30_Witness ==
    /\ script = <<LabelNode(L), GotoNode(L)>>
    /\ ctl = "ready"
    /\ error = "infinite_loop"
    /\ iteration_count = max_iterations

----------------------------------------------------------------------------
(* C31 *)

\* C31: a step of a turn that executes a Reply appends exactly one line to
\* the turn's output, the interpolated message of that Reply, also when the
\* message is the empty string.
C31_EveryReplyIsOneLine ==
    [][ (execute_script_loop /\ node_at(pc).type = "ReplyNode") =>
            replies' = Append(replies,
                              resolve_variables_in_string(
                                  runtime, node_at(pc).message)) ]_vars

----------------------------------------------------------------------------
(* C32 *)

\* No turn is in progress and the script has exited or run off its end.
terminated ==
    /\ ctl = "ready"
    /\ runtime.should_exit \/ pc >= Len(script)

\* C32: once a turn has ended with the exit flag set or the program counter
\* at the end of the script, the session stays so until a reset, and every
\* later turn executes no statement, returns the empty list and leaves the
\* program counter, the variables, the exit flag and the label table as
\* they are.
C32_TerminationIsStable ==
    [][ /\ (terminated /\ resets' = resets) => terminated'
        /\ (terminated /\ execute_script_begin) =>
               /\ ctl' = "ready"
               /\ replies' = <<>>
               /\ error' = "none"
               /\ executed' = executed
               /\ tick' = tick
               /\ runtime' = runtime
               /\ interpreter'.label_cache = interpreter.label_cache ]_vars

\* The script begins with an Exit that has statements behind it: the first
\* turn executed the Exit, and a later turn has returned.
C32_Witness ==
    /\ terminated
    /\ Len(script) >= 2
    /\ node_at(0).type = "ExitNode"
    /\ executed = 0
    /\ turns >= 2
    /\ pc = 1
    /\ runtime.should_exit
    /\ replies = <<>>

----------------------------------------------------------------------------
(* C33 *)

\* C33: a turn returns at most one line; a line of the script that a turn
\* returns is the interpolated message of the statement the turn executed
\* last, which is a Reply, and the turn ends paused with reason "reply"; a
\* turn that ends paused with reason "get_intent" returns no line.
C33_AtMostOneLinePerTurn ==
    [][ /\ (execute_script_begin /\ ctl' = "ready") => replies' = <<>>
        /\ (execute_script_loop /\ ctl' = "ready") =>
               /\ Len(replies') <= 1
               /\ (replies' # <<>> /\ error' = "none") =>
                      /\ node_at(pc).type = "ReplyNode"
                      /\ executed' = pc
                      /\ replies' = <<resolve_variables_in_string(
                                          runtime, node_at(pc).message)>>
                      /\ paused'
                      /\ interpreter'.pause_reason = "reply"
               /\ (paused' /\ interpreter'.pause_reason = "get_intent") =>
                      replies' = <<>>
        /\ (execute_script_loop /\ ctl' = "turn") => replies' = <<>> ]_vars

\* A first turn has executed other statements and then a Reply, and has
\* returned the message of that Reply as its one line.
C33_Witness ==
    /\ ctl = "ready"
    /\ turns = 1
    /\ error = "none"
    /\ executed >= 1
    /\ node_at(executed).type = "ReplyNode"
    /\ Len(replies) = 1
    /\ replies[1] = result
    /\ paused
    /\ interpreter.pause_reason = "reply"

----------------------------------------------------------------------------
(* C34 *)

\* The program counter is at a Goto whose label the label table does not
\* hold, and the exit flag is unset.
at_unresolved_goto ==
    /\ pc < Len(script)
    /\ ~runtime.should_exit
    /\ node_at(pc).type = "GotoNode"
    /\ node_at(pc).target_label \notin DOMAIN interpreter.label_cache

\* C34: a step of a turn that raises leaves the program counter at the
\* statement that failed and ends the turn with the fallback message as its
\* only line; and a session whose program counter is at a Goto to a label
\* the label table does not hold stays there until a reset: every turn then
\* begun enters the loop, and its step executes that Goto, raises and
\* returns the fallback message.
C34_RaiseKeepsCounter ==
    [][ /\ (execute_script_loop /\ error' # "none") =>
               /\ runtime'.current_line = pc
               /\ executed' = pc
               /\ replies' = <<FallbackMessage>>
               /\ ctl' = "ready"
        /\ (at_unresolved_goto /\ resets' = resets) =>
               /\ at_unresolved_goto'
               /\ runtime'.current_line = pc
               /\ execute_script_begin => ctl' = "turn"
               /\ execute_script_loop =>
                      /\ executed' = pc
                      /\ error' = "undeclared_label"
                      /\ replies' = <<FallbackMessage>>
                      /\ ctl' = "ready" ]_vars

\* The second turn of a script that begins with a Goto to an undeclared
\* label has failed at that Goto like the first.
C34_Witness ==
    /\ ctl = "ready"
    /\ turns >= 2
    /\ at_unresolved_goto
    /\ pc = 0
    /\ executed = 0
    /\ Len(script) >= 2
    /\ error = "undeclared_label"
    /\ replies = <<FallbackMessage>>

----------------------------------------------------------------------------
(* C35 *)

\* The interpreter of a controller that has just been initialized.
InitializedInterpreter == register_function(Interpreter, "get_intent")

\* The environment a freshly initialized session on the same script has
\* after the variable writes this session has had since its reset: reset()
\* and _set_initial_variables leave nothing else of the old environment
\* behind but the list of declared intents.
fresh_runtime == [runtime EXCEPT !.defined_intents = <<>>]

\* What a call of _execute_script returns and how it leaves the interpreter
\* paused.
observed(turn) ==
    [replies  |-> turn.replies,
     error    |-> turn.m.exc,
     paused   |-> turn.m.it.execution_paused,
     reason   |-> turn.m.it.pause_reason,
     returned |-> turn.returned]

\* C35: after reset_conversation(), and after any variable writes that
\* follow it, the next turn returns the same output, pauses the same way and
\* fails the same way as that turn does in a freshly initialized session on
\* the same script that was given the same writes.
C35_ResetIsFreshSession ==
    (ctl = "ready" /\ resets >= 1 /\ turns = 0) =>
        observed(execute_script_turn(runtime, interpreter, script, MaxSteps))
            = observed(execute_script_turn(fresh_runtime,
                                           InitializedInterpreter, script,
                                           MaxSteps))

----------------------------------------------------------------------------
(* C36 *)

\* Some label name is defined by Label statements at two indices of the
\* script.
defined_twice == \E name \in {L, M} : Cardinality(label_positions(name)) >= 2

\* One sequence of lines continues the other.
agree(lines, others) ==
    \A i \in 1..Len(lines) : i <= Len(others) => lines[i] = others[i]

\* C36: for a script that defines a label name at two indices, the lines a
\* run of execute_script returns are the lines the turns of a turn-driven
\* session on the same script return, in the same order, as far as the turns
\* compared go.
C36_TwoDefinitionsSameOutput ==
    (ctl = "ready" /\ turns = 1 /\ error = "none" /\ defined_twice) =>
        agree(replies,
              session_replies(RuntimeEnvironment, Interpreter, script,
                              MaxTurns))

----------------------------------------------------------------------------
(* C37 *)

\* A run of execute_script is over and the script has ended or exited.
ended_normally ==
    /\ ctl = "ready"
    /\ turns >= 1
    /\ runtime.should_exit \/ pc >= Len(script)

\* C37: a run of execute_script raises the possible-infinite-loop error only
\* when the script has neither ended nor exited after 1000 executed
\* statements; a run that executes an Exit, or reaches the end of the
\* script, with its 1000th statement returns its replies.
C37_CapSparesNormalEnd ==
    ended_normally => error # "infinite_loop"

----------------------------------------------------------------------------
(* C38 *)

\* C38: the pause reason is "reply" or "get_intent" exactly when the
\* interpreter is paused, and None whenever it is not, after any sequence of
\* steps and resumes.
C38_FlagAndReasonAgree ==
    /\ paused <=> interpreter.pause_reason \in {"reply", "get_intent"}
    /\ ~paused => interpreter.pause_reason = NoReason

----------------------------------------------------------------------------
(* C39 *)

\* C39: the program counter of the stepping interpreter is never negative
\* and never beyond the number of statements of the script.
C39_CounterInRange ==
    /\ 0 <= pc
    /\ pc <= Len(script)

\* A jump to a label whose Label statement is the last statement, and has
\* been executed, has put the program counter behind it: at the number of
\* statements.
C39_Witness ==
    /\ executed # -1
    /\ node_at(executed).type \in {"GotoNode", "IfNode"}
    /\ error = "none"
    /\ interpreter.has_jumped
    /\ located(node_at(executed).target_label)
    /\ interpreter.label_cache[node_at(executed).target_label]
           = Len(script) - 1
    /\ node_at(Len(script) - 1).type = "LabelNode"
    /\ pc = Len(script)

----------------------------------------------------------------------------
(* C40 *)

\* C40: a step that executes a statement other than a Set leaves the
\* variable map as it is, whether it returns or raises; and a step that
\* executes an Exit changes nothing of the environment but the exit flag
\* and the program counter, and nothing of the interpreter but the two
\* flags that every statement clears before it acts (_has_jumped,
\* _execution_paused).
C40_OnlySetWritesVariables ==
    [][ (step_call /\ pc < Len(script)) =>
          /\ node_at(pc).type # "SetNode" =>
                 runtime'.variables = runtime.variables
          /\ node_at(pc).type = "ExitNode" =>
                 /\ error' = "none"
                 /\ runtime' = [runtime EXCEPT !.should_exit = TRUE,
                                               !.current_line = pc + 1]
                 /\ interpreter' = [interpreter EXCEPT
                                        !.has_jumped = FALSE,
                                        !.execution_paused = FALSE] ]_vars

\* A GetIntent has been executed with $user_input and $intent bound: the
\* interpreter waits for the intent and $intent is still what it was
\* written as.
C40_Witness ==
    /\ executed # -1
    /\ node_at(executed).type = "GetIntentNode"
    /\ paused
    /\ interpreter.pause_reason = "get_intent"
    /\ get_variable(runtime, user_input_var, None) = <<"x">>
    /\ get_variable(runtime, intent_var, None) = <<"x", "y">>

====
